---- MODULE Spec2Model ----
(***************************************************************************)
(* File-lifecycle state machine of the churn prediction pipeline           *)
(* (code/orchestration/churn_prediction_pipeline.py).                      *)
(*                                                                         *)
(* Strings are sequences of tokens: an f-string is a concatenation, a key  *)
(* is its path segments separated by the token "/", and a file name ends   *)
(* in an extension token such as ".csv".  Object storage is a function     *)
(* from the keys that exist to their bodies.                               *)
(***************************************************************************)
EXTENDS Integers, Sequences, FiniteSets, TLC

VARIABLES
    bucketExists,   \* whether the bucket of the run exists
    s3,             \* object storage: key -> body, for the keys that exist
    aliasVersion,   \* model version the registry alias points to
    key,            \* the flow's `key` parameter
    upload,         \* the object uploaded at `key` before the run, if any
    folderArg,      \* `folder` argument of a direct move_to_folder call
    messageArg,     \* `message` argument of a direct move_to_folder call
    exampleArg,     \* `input_example` argument of a direct validate_file_input call
    thresholdArg,   \* `score_threshold` argument of a direct assess_prediction_scores call
    pc,             \* position of the flow
    attempt,        \* failed attempts of the task in progress
    latest_s3_key,  \* the flow's latest_s3_key
    exc,            \* message of the exception that reached the handler
    raisedAt,       \* stage whose exception reached the handler
    result,         \* "running", "returned" or "raised"
    model,          \* fetched model: its version, or "none"
    validation,     \* (success, inference_df, err_msg) of validate_file_input
    report,         \* report run of generate_data_report
    drift,          \* (is_data_drifted, num_drifted_cols, drifted_col_names) of the flow
    scores,         \* (any_scores_below_threshold, num_scores_below_threshold, scores_below_threshold)
    drift_metrics,  \* rows of the drift_metrics table
    db,             \* session of the last attempt of save_report_to_database
    reference,      \* model version whose reference data the report compares with, or "none"
    workspace,      \* report workspace: its projects, the persisted project id, the runs added
    runs,           \* flow runs that share the bucket: each run's position, who placed each object
    alerts,         \* subjects published to the notification topic
    faults,         \* external calls that failed by injection so far
    called,         \* tasks called so far
    s3calls,        \* storage requests issued so far: [op, key]
    copies,         \* <<source, destination>> of the copies that succeeded
    moveCount,      \* number of move_to_folder calls that returned
    lastMove        \* arguments and pre-state of the last move that returned

ctl == <<pc, attempt, exc, raisedAt, result>>
env == <<bucketExists, aliasVersion, key, upload, folderArg, messageArg, exampleArg,
         thresholdArg>>
assessed == <<drift, scores>>
vars == <<bucketExists, s3, aliasVersion, key, upload, folderArg, messageArg,
          exampleArg, thresholdArg, pc, attempt, latest_s3_key, exc, raisedAt,
          result, model, validation, report, drift, scores, drift_metrics, db,
          reference, workspace, runs, alerts,
          faults, called, s3calls, copies, moveCount, lastMove>>

----
\* Bounds of the model.

\* injected failures of external calls in one behaviour
MaxFaults == 4

\* metrics other than DriftedColumnsCount in a report handed to a direct call
\* of the assessment tasks
MaxMetrics == 3

\* words and spaces of a column name handed to the two ingestion paths
MaxNameLen == 7

\* consecutive runs that add to the report workspace
MaxRuns == 3

----
\* Program constants.

FOLDER_INPUT == <<"data", "/", "input">>
FOLDER_PROCESSING == <<"data", "/", "processing">>
FOLDER_PROCESSED == <<"data", "/", "processed">>
FOLDER_ERRORED == <<"data", "/", "errored">>
FOLDER_LOGS == <<"data", "/", "logs">>

MODEL_NAME == <<"XGBoostChurnModel">>
TARGET_COLUMN == <<"churn">>
TARGET_PREDICTION_COLUMN == <<"churn_prediction">>

NUMERICAL_COLUMNS ==
    << <<"call", "_", "failure">>, <<"complains">>,
       <<"subscription", "_", "length">>, <<"charge", "_", "amount">>,
       <<"seconds", "_", "of", "_", "use">>,
       <<"frequency", "_", "of", "_", "use">>,
       <<"frequency", "_", "of", "_", "sms">>,
       <<"distinct", "_", "called", "_", "numbers">>,
       <<"age", "_", "group">>, <<"status">>,
       <<"customer", "_", "value">> >>

\* @task(retries=3): a task body runs at most 1 + Retries times
Retries == 3

----
\* Strings.

Range(s) == {s[i] : i \in DOMAIN s}

Last(s) == s[Len(s)]

IsPrefix(p, s) == Len(p) <= Len(s) /\ SubSeq(s, 1, Len(p)) = p

\* `sub in s` of Python
Contains(s, sub) ==
    \E i \in 0..(Len(s) - Len(sub)) : SubSeq(s, i + 1, i + Len(sub)) = sub

\* mutant: the extension check accepts every key
EndsWith_AnyExtension(s, tok) == Len(s) > 0

\* s.endswith(suffix), suffix a single token
EndsWith(s, tok) == Len(s) > 0 /\ Last(s) = tok

\* s.replace(tok, "")
RemoveAll(s, tok) == SelectSeq(s, LAMBDA t : t # tok)

\* key.split("/")[-1], also os.path.basename(key)
Basename(k) ==
    LET slashes == {i \in DOMAIN k : k[i] = "/"} IN
    IF slashes = {} THEN k
    ELSE LET last == CHOOSE i \in slashes : \A j \in slashes : j <= i
         IN SubSeq(k, last + 1, Len(k))

\* f"{folder}/{filename}"
Join(folder, filename) == folder \o <<"/">> \o filename

\* number of occurrences of a token
Count(s, tok) == Cardinality({i \in DOMAIN s : s[i] = tok})

----
\* Column names (modeling/churn_model_training.py).

\* str.lower() on the tokens that carry upper-case letters
LowerTok(t) ==
    CASE t = "Call" -> "call"
      [] t = "Failure" -> "failure"
      [] t = "Churn" -> "churn"
      [] t = "Complains" -> "complains"
      [] t = "Accuracy" -> "accuracy"
      [] t = "F1Score" -> "f1score"
      [] t = "Precision" -> "precision"
      [] t = "Recall" -> "recall"
      [] t = "F1ByLabel" -> "f1bylabel"
      [] t = "ValueDrift" -> "valuedrift"
      [] t = "DriftedColumnsCount" -> "driftedcolumnscount"
      [] t = "Age_Group" -> "age_group"
      [] OTHER -> t

Lower(s) == [i \in DOMAIN s |-> LowerTok(s[i])]

\* str.replace("  ", " "): one left-to-right pass over non-overlapping pairs
RECURSIVE ReplaceDoubleSpace(_)
ReplaceDoubleSpace(s) ==
    IF Len(s) < 2 THEN s
    ELSE IF s[1] = " " /\ s[2] = " "
         THEN <<" ">> \o ReplaceDoubleSpace(SubSeq(s, 3, Len(s)))
         ELSE <<s[1]>> \o ReplaceDoubleSpace(Tail(s))

\* str.strip()
RECURSIVE Strip(_)
Strip(s) ==
    IF s = <<>> THEN s
    ELSE IF Head(s) = " " THEN Strip(Tail(s))
    ELSE IF Last(s) = " " THEN Strip(SubSeq(s, 1, Len(s) - 1))
    ELSE s

\* str.replace(" ", "_")
SpacesToUnderscores(s) == [i \in DOMAIN s |-> IF s[i] = " " THEN "_" ELSE s[i]]

\* mutant: the spaces are kept
CleanName_KeepSpaces(n) == Strip(ReplaceDoubleSpace(Lower(n)))

CleanName(n) == SpacesToUnderscores(Strip(ReplaceDoubleSpace(Lower(n))))

\* clean_column_names applied to the columns of a table
clean_column_names(header) == [i \in DOMAIN header |-> CleanName(header[i])]

----
\* Object storage (the boto3 S3 client).

LogBody(text) == [kind |-> "log", text |-> text, header |-> <<>>, parseable |-> FALSE]

CsvBody(header, parseable) ==
    [kind |-> "csv", text |-> <<>>, header |-> header, parseable |-> parseable]

\* put_object / the destination side of copy_object
PutObject(st, k, body) ==
    [x \in DOMAIN st \cup {k} |-> IF x = k THEN body ELSE st[x]]

\* delete_object: deleting an absent key succeeds
DeleteObject(st, k) == [x \in DOMAIN st \ {k} |-> st[x]]

FolderOf(k) ==
    CASE IsPrefix(FOLDER_INPUT \o <<"/">>, k) -> "INPUT"
      [] IsPrefix(FOLDER_PROCESSING \o <<"/">>, k) -> "PROCESSING"
      [] IsPrefix(FOLDER_PROCESSED \o <<"/">>, k) -> "PROCESSED"
      [] IsPrefix(FOLDER_ERRORED \o <<"/">>, k) -> "ERRORED"
      [] IsPrefix(FOLDER_LOGS \o <<"/">>, k) -> "LOGS"
      [] OTHER -> "OTHER"

KeysIn(st, f) == {k \in DOMAIN st : FolderOf(k) = f}

Call(op, k) == [op |-> op, key |-> k]

----
\* move_to_folder: one execution of the task body.

\* Outcomes of the storage calls of one attempt: no failure, a call that
\* raises without effect, or a call that takes effect and then raises because
\* its response is lost.
MoveFaults ==
    {"none", "copy", "delete", "get", "put", "copy_lost", "delete_lost", "put_lost"}

LogKey(filename) == Join(FOLDER_LOGS, filename \o <<".log">>)

\* mutant: the audit line leaves out the message
LogLine_NoMessage(k, new_key, message) ==
    <<"<utc>", " Moved ">> \o k \o <<" -> ">> \o new_key \o <<". ", "\n">>

\* f"{now} Moved {key} -> {new_key}. {message}\n"
LogLine(k, new_key, message) ==
    <<"<utc>", " Moved ">> \o k \o <<" -> ">> \o new_key \o <<". ">> \o message \o <<"\n">>

\* mutant: the log is overwritten with the new line
AppendLog_Overwrite(existing, log_msg) == log_msg

\* updated_log = existing + log_msg
AppendLog(existing, log_msg) == existing \o log_msg

StorageError(op, why) == <<"ClientError", ": ", op, " ", why>>

move_to_folder(st, k, folder, message, fault) ==
    LET filename == Basename(k)
        new_key == Join(folder, filename)
        log_key == LogKey(filename)
        log_msg == LogLine(k, new_key, message)
        copyCall == {Call("copy", k)}
        deleteCall == copyCall \cup {Call("delete", k)}
        getCall == deleteCall \cup {Call("get", log_key)}
        putCall == getCall \cup {Call("put", log_key)}
        Raised(store, why, calls, copied) ==
            [store |-> store, ok |-> FALSE, ret |-> <<>>, exc |-> why,
             calls |-> calls, copied |-> copied, hit |-> TRUE]
        Refused(why) ==
            [store |-> st, ok |-> FALSE, ret |-> <<>>, exc |-> why,
             calls |-> copyCall, copied |-> {}, hit |-> FALSE]
    IN
    IF ~bucketExists
    THEN Refused(StorageError("copy_object", "NoSuchBucket"))
    ELSE IF k \notin DOMAIN st
    THEN Refused(StorageError("copy_object", "NoSuchKey"))
    ELSE IF k = new_key
    THEN Refused(StorageError("copy_object", "InvalidRequest"))
    ELSE IF fault = "copy"
    THEN Raised(st, StorageError("copy_object", "failed"), copyCall, {})
    ELSE
    LET st1 == PutObject(st, new_key, st[k])
        copied == {<<k, new_key>>}
    IN
    IF fault = "copy_lost"
    THEN Raised(st1, StorageError("copy_object", "timeout"), copyCall, copied)
    ELSE IF fault = "delete"
    THEN Raised(st1, StorageError("delete_object", "failed"), deleteCall, copied)
    ELSE
    LET st2 == DeleteObject(st1, k) IN
    IF fault = "delete_lost"
    THEN Raised(st2, StorageError("delete_object", "timeout"), deleteCall, copied)
    ELSE IF fault = "get"
    THEN Raised(st2, StorageError("get_object", "failed"), getCall, copied)
    ELSE
    LET existing == IF log_key \in DOMAIN st2 THEN st2[log_key].text ELSE <<>>
        updated_log == AppendLog(existing, log_msg)
        st3 == PutObject(st2, log_key, LogBody(updated_log))
    IN
    IF fault = "put"
    THEN Raised(st2, StorageError("put_object", "failed"), putCall, copied)
    ELSE IF fault = "put_lost"
    THEN Raised(st3, StorageError("put_object", "timeout"), putCall, copied)
    ELSE [store |-> st3, ok |-> TRUE, ret |-> new_key, exc |-> <<>>,
          calls |-> putCall, copied |-> copied, hit |-> FALSE]

----
\* validate_file_input, prepare_data, log_predictions.

\* str(list_of_columns), as in f"{input_example.columns.tolist()}"
RECURSIVE ListItems(_)
ListItems(cols) ==
    IF cols = <<>> THEN <<>>
    ELSE IF Len(cols) = 1 THEN <<"'">> \o cols[1] \o <<"'">>
    ELSE <<"'">> \o cols[1] \o <<"'", ", ">> \o ListItems(Tail(cols))

ListStr(cols) == <<"[">> \o ListItems(cols) \o <<"]">>

\* mutant: the message does not name the key
InvalidFileTypeMsg_NoKey(k) ==
    <<"Invalid file type for ">> \o <<". Expected a CSV file.">>

InvalidFileTypeMsg(k) ==
    <<"Invalid file type for ">> \o k \o <<". Expected a CSV file.">>

ErrorReadingMsg(k, e) == <<"Error reading CSV file ">> \o k \o <<": ">> \o e

\* mutant: the message names the first expected column only
StructureMsg_FirstColumn(k, expected) ==
    <<"Input file ">> \o k \o <<" does not match expected structure. ">>
        \o <<"Expected columns: ">> \o ListStr(SubSeq(expected, 1, 1))

StructureMsg(k, expected) ==
    <<"Input file ">> \o k \o <<" does not match expected structure. ">>
        \o <<"Expected columns: ">> \o ListStr(expected)

\* mutant: a failure is returned together with a table
Invalid_WithData(msg, calls) ==
    [success |-> FALSE, hasData |-> TRUE, data |-> <<>>,
     hasErr |-> TRUE, err |-> msg, calls |-> calls]

\* return False, None, err_msg
Invalid(msg, calls) ==
    [success |-> FALSE, hasData |-> FALSE, data |-> <<>>,
     hasErr |-> TRUE, err |-> msg, calls |-> calls]

\* mutant: the object is read before the extension is checked
ExtensionRejected_AfterRead(k) == Invalid(InvalidFileTypeMsg(k), {Call("get", k)})

\* the return of the extension check, before any storage request
ExtensionRejected(k) == Invalid(InvalidFileTypeMsg(k), {})

\* fault: "none", or "get" when get_object raises
validate_file_input(st, k, input_example, fault) ==
    IF ~EndsWith(k, ".csv")
    THEN ExtensionRejected(k)
    ELSE IF fault = "get"
    THEN Invalid(ErrorReadingMsg(k, StorageError("get_object", "failed")),
                 {Call("get", k)})
    ELSE IF ~bucketExists
    THEN Invalid(ErrorReadingMsg(k, StorageError("get_object", "NoSuchBucket")),
                 {Call("get", k)})
    ELSE IF k \notin DOMAIN st
    THEN Invalid(ErrorReadingMsg(k, StorageError("get_object", "NoSuchKey")),
                 {Call("get", k)})
    ELSE IF ~st[k].parseable
    THEN Invalid(ErrorReadingMsg(k, <<"ParserError">>), {Call("get", k)})
    ELSE
    LET data == clean_column_names(st[k].header) IN
    IF ~(\A i \in DOMAIN input_example : input_example[i] \in Range(data))
    THEN Invalid(StructureMsg(k, input_example), {Call("get", k)})
    ELSE [success |-> TRUE, hasData |-> TRUE, data |-> data,
          hasErr |-> FALSE, err |-> <<>>, calls |-> {Call("get", k)}]

TargetMissingMsg == <<"Target column '">> \o TARGET_COLUMN \o <<"' not found in the dataset.">>

\* prepare_data: the feature columns, or the exception it raises; `columns`
\* are the columns of data_to_prepare after clean_column_names
prepare_data(header) ==
    LET cols == clean_column_names(header) IN
    IF TARGET_COLUMN \notin Range(cols)
    THEN [ok |-> FALSE, X |-> <<>>, columns |-> cols,
          exc |-> <<"ValueError", ": ">> \o TargetMissingMsg]
    ELSE IF \E i \in DOMAIN NUMERICAL_COLUMNS : NUMERICAL_COLUMNS[i] \notin Range(cols)
    THEN [ok |-> FALSE, X |-> <<>>, columns |-> cols, exc |-> <<"KeyError">>]
    ELSE [ok |-> TRUE, X |-> NUMERICAL_COLUMNS, columns |-> cols, exc |-> <<>>]

\* mutant: the predictions are written under the name of the input
OutputFilename_SameName(filename, model_version) == filename \o <<".csv">>

\* f"{filename}_predictions_{MODEL_NAME}_v{model_version}.csv"
OutputFilename(filename, model_version) ==
    filename \o <<"_predictions_">> \o MODEL_NAME \o <<"_v", model_version, ".csv">>

LogPredictionsFaults == {"none", "registry", "put", "put_lost", "delete", "delete_lost"}

\* log_predictions: one execution of the task body
log_predictions(st, X, k, model_version, fault) ==
    LET filename == RemoveAll(Basename(k), ".csv")
        output_key == Join(FOLDER_PROCESSING, OutputFilename(filename, model_version))
        predictions_df == X \o <<TARGET_COLUMN, TARGET_PREDICTION_COLUMN>>
        putCall == {Call("put", output_key)}
        deleteCall == putCall \cup {Call("delete", k)}
        st1 == PutObject(st, output_key, CsvBody(predictions_df, TRUE))
        st2 == DeleteObject(st1, k)
        Raised(store, why, calls) ==
            [store |-> store, ok |-> FALSE, ret |-> <<>>, exc |-> why, calls |-> calls,
             hit |-> TRUE]
    IN
    IF fault = "registry"
    THEN Raised(st, <<"MlflowException">>, {})
    ELSE IF ~bucketExists
    THEN [store |-> st, ok |-> FALSE, ret |-> <<>>,
          exc |-> StorageError("put_object", "NoSuchBucket"), calls |-> putCall,
          hit |-> FALSE]
    ELSE IF fault = "put"
    THEN Raised(st, StorageError("put_object", "failed"), putCall)
    ELSE IF fault = "put_lost"
    THEN Raised(st1, StorageError("put_object", "timeout"), putCall)
    ELSE IF fault = "delete"
    THEN Raised(st1, StorageError("delete_object", "failed"), deleteCall)
    ELSE IF fault = "delete_lost"
    THEN Raised(st2, StorageError("delete_object", "timeout"), deleteCall)
    ELSE [store |-> st2, ok |-> TRUE, ret |-> output_key, exc |-> <<>>,
          calls |-> deleteCall, hit |-> FALSE]

----
\* The report and its assessment.  Values are in hundredths (0.70 is 70).

\* A metric of the report: `value` is a number (shape "scalar"), a dict
\* (shape "dict", whose sub-values under the keys of `nonnum` are not numbers)
\* or something else (shape "other").
Scalar(id, v) ==
    [metric_id |-> id, shape |-> "scalar", value |-> v, dict |-> <<>>, nonnum |-> {}]

DictPartly(id, d, nonnum) ==
    [metric_id |-> id, shape |-> "dict", value |-> 0, dict |-> d, nonnum |-> nonnum]

Dict(id, d) == DictPartly(id, d, {})

Other(id) ==
    [metric_id |-> id, shape |-> "other", value |-> 0, dict |-> <<>>, nonnum |-> {}]

\* s.split(tok)
RECURSIVE Split(_, _)
Split(s, tok) ==
    IF \A i \in DOMAIN s : s[i] # tok THEN <<s>>
    ELSE LET i == CHOOSE j \in DOMAIN s : s[j] = tok /\ \A m \in 1..(j - 1) : s[m] # tok
         IN <<SubSeq(s, 1, i - 1)>> \o Split(SubSeq(s, i + 1, Len(s)), tok)

\* s.strip(tok)
RECURSIVE StripTok(_, _)
StripTok(s, tok) ==
    IF s = <<>> THEN s
    ELSE IF Head(s) = tok THEN StripTok(Tail(s), tok)
    ELSE IF Last(s) = tok THEN StripTok(SubSeq(s, 1, Len(s) - 1), tok)
    ELSE s

\* metric_id.split("(")[1].split("=")[1].strip(")")
DriftColumnName(metric_id) == StripTok(Split(Split(metric_id, "(")[2], "=")[2], ")")

\* mutant: a share of 0.5 counts as drift
IsShareDrifted_Inclusive(share) == share >= 50

\* float(value["share"]) > 0.5
IsShareDrifted(share) == share > 50

\* mutant: a value of 0.05 counts as drifted
IsValueDrifted_Inclusive(value) == value <= 5

\* float(value) < 0.05
IsValueDrifted(value) == value < 5

RECURSIVE DriftLoop(_, _)
DriftLoop(metrics, acc) ==
    IF metrics = <<>> THEN acc
    ELSE LET metric == Head(metrics) IN
         IF Head(metric.metric_id) = "DriftedColumnsCount"
         THEN DriftLoop(Tail(metrics),
                        [acc EXCEPT !.is_data_drifted = IsShareDrifted(metric.dict["share"]),
                                    !.num_cols_drifted = metric.dict["count"]])
         ELSE IF Head(metric.metric_id) = "ValueDrift" /\ IsValueDrifted(metric.value)
         THEN DriftLoop(Tail(metrics),
                        [acc EXCEPT !.drifted_columns =
                             Append(@, DriftColumnName(metric.metric_id))])
         ELSE DriftLoop(Tail(metrics), acc)

\* the locals of assess_data_drift before its loop
NoDrift == [is_data_drifted |-> FALSE, num_cols_drifted |-> 0, drifted_columns |-> <<>>]

assess_data_drift(drift_report) == DriftLoop(drift_report, NoDrift)

score_names == <<"F1Score", "Precision", "Recall", "Accuracy">>

\* mutant: a score equal to the threshold counts as below it
IsBelowThreshold_Inclusive(value, threshold) == value <= threshold

\* float(value) < score_threshold
IsBelowThreshold(value, threshold) == value < threshold

RECURSIVE ScoreLoop(_, _, _, _)
ScoreLoop(names, metrics, all, score_threshold) ==
    IF names = <<>> THEN <<>>
    ELSE IF metrics = <<>> THEN ScoreLoop(Tail(names), all, all, score_threshold)
    ELSE LET metric == Head(metrics)
             rest == ScoreLoop(names, Tail(metrics), all, score_threshold)
         IN IF IsPrefix(<<Head(names), "(">>, metric.metric_id)
               /\ IsBelowThreshold(metric.value, score_threshold)
            THEN <<[score |-> Head(names), value |-> metric.value]>> \o rest
            ELSE rest

\* the locals of assess_prediction_scores before its loop
NoScores ==
    [any_scores_below_threshold |-> FALSE, num_scores_below_threshold |-> 0,
     scores_below_threshold |-> <<>>]

assess_prediction_scores(drift_report, score_threshold) ==
    LET scores_below_threshold ==
            ScoreLoop(score_names, drift_report, drift_report, score_threshold)
    IN [any_scores_below_threshold |-> scores_below_threshold # <<>>,
        num_scores_below_threshold |-> Len(scores_below_threshold),
        scores_below_threshold |-> scores_below_threshold]

\* mutant: the column argument is never found
ColumnMatch_None(metric_id) == {}

\* re.search(r"column=([\w\d_]+)", metric_id)
ColumnMatch(metric_id) ==
    {i \in 1..(Len(metric_id) - 2) :
        /\ metric_id[i] = "column" /\ metric_id[i + 1] = "="
        /\ metric_id[i + 2] \notin {"(", ")", "=", ","}}

simplify_metric_name(metric_id) ==
    LET base == <<LowerTok(Head(metric_id))>> IN
    IF ColumnMatch(metric_id) # {}
    THEN LET i == CHOOSE j \in ColumnMatch(metric_id) :
                      \A m \in ColumnMatch(metric_id) : j <= m
         IN base \o <<"_", LowerTok(metric_id[i + 2])>>
    ELSE base

\* the dict keys in insertion order
DictKeys(d) ==
    IF DOMAIN d = {"count", "share"} THEN <<"count", "share">>
    ELSE IF DOMAIN d = {"0", "1"} THEN <<"0", "1">>
    ELSE <<>>

\* mutant: every sub-value of a dict makes a row
NumericKeys_All(metric) == DictKeys(metric.dict)

\* the keys of value.items() with isinstance(subvalue, (float, int))
NumericKeys(metric) == SelectSeq(DictKeys(metric.dict), LAMBDA k : k \notin metric.nonnum)

\* the DriftMetric rows parse_and_save_drift_metrics builds
RECURSIVE MetricRows(_)
MetricRows(metrics) ==
    IF metrics = <<>> THEN <<>>
    ELSE LET metric == Head(metrics)
             simple_metric_name == simplify_metric_name(metric.metric_id)
             keys == NumericKeys(metric)
         IN (CASE metric.shape = "scalar" ->
                    <<[metric_name |-> simple_metric_name, value |-> metric.value]>>
               [] metric.shape = "dict" ->
                    [i \in DOMAIN keys |->
                        [metric_name |-> simple_metric_name \o <<"[", keys[i], "]">>,
                         value |-> metric.dict[keys[i]]]]
               [] OTHER -> <<>>)
            \o MetricRows(Tail(metrics))

\* parse_and_save_drift_metrics(drift_report, session): the rows are added and
\* committed together, or the commit raises and none is stored
parse_and_save_drift_metrics(rows, drift_report, fault) ==
    IF fault = "commit"
    THEN [ok |-> FALSE, rows |-> rows, exc |-> <<"OperationalError">>]
    ELSE [ok |-> TRUE, rows |-> rows \o MetricRows(drift_report), exc |-> <<>>]

score_threshold == 70

----
\* Inputs of a run.

InputKey(filename) == Join(FOLDER_INPUT, filename)

UploadKeys ==
    {InputKey(<<"customers", ".csv">>),
     InputKey(<<"bad", ".txt">>),
     InputKey(<<"customers", ".csv", ".csv">>),
     InputKey(<<"2024", "/", "customers", ".csv">>),
     InputKey(<<"CUSTOMERS", ".CSV">>)}

RawFeatureColumns ==
    << <<" ", "Call", " ", "Failure", " ">>, <<"Complains">> >>
        \o SubSeq(NUMERICAL_COLUMNS, 3, Len(NUMERICAL_COLUMNS))

UploadBodies ==
    {CsvBody(RawFeatureColumns \o << <<"Churn">> >>, TRUE),
     CsvBody(<< <<"customer", "_", "id">> >> \o NUMERICAL_COLUMNS \o <<TARGET_COLUMN>>, TRUE),
     CsvBody(RawFeatureColumns, TRUE),
     CsvBody(Tail(NUMERICAL_COLUMNS) \o <<TARGET_COLUMN>>, TRUE),
     CsvBody(<< <<"Call", " ", " ", " ", "Failure">> >> \o Tail(NUMERICAL_COLUMNS)
                 \o <<TARGET_COLUMN>>, TRUE),
     CsvBody(<<>>, FALSE)}

Versions == {"1", "2"}

EmptyStore == [k \in {} |-> LogBody(<<>>)]

NoUpload == [exists |-> FALSE, body |-> CsvBody(<<>>, FALSE)]

ValueDriftId(column) == <<"ValueDrift", "(", "column", "=", column, ")">>

ReportOf(share, count, ageDrift, f1, accuracy) ==
    << Dict(<<"DriftedColumnsCount", "(", "drift_share", "=", "0.5", ")">>,
            [x \in {"count", "share"} |-> IF x = "count" THEN count ELSE share]),
       Scalar(ValueDriftId("Age_Group"), ageDrift),
       Scalar(ValueDriftId("status"), 4),
       Scalar(<<"Accuracy", "(", ")">>, accuracy),
       Scalar(<<"F1Score", "(", "conf_matrix", "=", "True", ")">>, f1),
       Dict(<<"F1ByLabel", "(", ")">>, [x \in {"0", "1"} |-> IF x = "0" THEN 90 ELSE f1]),
       Other(<<"RocAuc", "(", ")">>) >>

\* report runs the report generator may return
Reports ==
    {ReportOf(40, 1, 30, 80, 70), ReportOf(60, 2, 3, 80, 90),
     ReportOf(50, 1, 5, 65, 69), ReportOf(51, 2, 4, 69, 70),
     ReportOf(50, 1, 5, 70, 70)}

\* the database session before save_report_to_database is called: `session`
\* is "none", "unbound" (the attempt raised before connect_to_database
\* returned one) or "closed"; save_attempt is the number of failed attempts of
\* save_report_to_database while connect_to_database runs
NoSessions ==
    [session |-> "none", rolled_back |-> FALSE, committed |-> FALSE, save_attempt |-> 0]

\* no session was bound: neither session.rollback() nor session.close() ran
UnboundSessionState ==
    [session |-> "unbound", rolled_back |-> FALSE, committed |-> FALSE, save_attempt |-> 0]

\* no flow runs share the bucket
NoRuns == [of |-> <<>>, placed |-> [k \in {} |-> 0], touched |-> {}]

\* get_evidently_project_id() returns None: no project id is persisted
NoProjectId == 0

\* a report workspace without a project and no project id persisted; `next`
\* is the id the workspace gives to the next project it creates
NoProjects == [projects |-> {}, persisted |-> NoProjectId, runs |-> <<>>, next |-> 1]

\* mutant: the persisted id is never resolved
Resolves_Never(ws, id) == FALSE

\* workspace.get_project(evidently_project_id) finds the project
Resolves(ws, id) == id \in ws.projects

\* The end of generate_data_report: the project is looked up by the persisted
\* id, or created and its id persisted, and the run is added to it.  For an id
\* that is not found, get_project raises EvidentlyError (missingRaises) or
\* returns None, and project.id then raises AttributeError.
publish_report(ws, fault, missingRaises) ==
    LET evidently_project_id == ws.persisted
        found == evidently_project_id # NoProjectId /\ Resolves(ws, evidently_project_id)
        created == [ws EXCEPT !.projects = @ \cup {ws.next}, !.next = @ + 1]
        saved == [created EXCEPT !.persisted = ws.next]
        project == IF found THEN evidently_project_id ELSE ws.next
        Raised(w, why) == [workspace |-> w, ok |-> FALSE, exc |-> why]
    IN
    IF evidently_project_id # NoProjectId /\ ~found /\ ~missingRaises
    THEN Raised(ws, <<"AttributeError">>)
    ELSE IF ~found /\ fault = "create"
    THEN Raised(ws, <<"EvidentlyError">>)
    ELSE IF ~found /\ fault = "save"
    THEN Raised(created, <<"PrefectException">>)
    ELSE
    LET before == IF found THEN ws ELSE saved IN
    IF fault = "add_run"
    THEN Raised(before, <<"EvidentlyError">>)
    ELSE [workspace |-> [before EXCEPT !.runs = Append(@, project)],
          ok |-> TRUE, exc |-> <<>>]

NoValidation ==
    [success |-> FALSE, hasData |-> FALSE, data |-> <<>>, hasErr |-> FALSE,
     err |-> <<>>, calls |-> {}]

NoMove ==
    [key |-> <<>>, folder |-> <<>>, message |-> <<>>, ret |-> <<>>,
     body |-> LogBody(<<>>), logExisted |-> FALSE, logBefore |-> <<>>]

----
\* Control.

CanFail == faults < MaxFaults

Failing(choices) == IF CanFail THEN choices ELSE {"none"}

Injected(fault) == IF fault = "none" THEN 0 ELSE 1

Goto(next) ==
    /\ pc' = next
    /\ attempt' = 0
    /\ UNCHANGED <<exc, raisedAt, result>>

\* `return` of the flow
Return ==
    /\ pc' = "done"
    /\ attempt' = 0
    /\ result' = "returned"
    /\ UNCHANGED <<exc, raisedAt>>

\* an exception leaves a stage: the `except Exception` of the flow catches it,
\* unless it is raised by the handler itself
Raise(here, e) ==
    IF here \in {"handler", "call_move"}
    THEN /\ pc' = "done"
         /\ attempt' = 0
         /\ result' = "raised"
         /\ UNCHANGED <<exc, raisedAt>>
    ELSE /\ pc' = "handler"
         /\ attempt' = 0
         /\ exc' = e
         /\ raisedAt' = here
         /\ UNCHANGED result

\* mutant: the first failure of a task reaches the flow
RetryOrRaise_NoRetry(here, e, retries) == Raise(here, e)

\* a task attempt raised: Prefect runs the body again while retries are left
RetryOrRaise(here, e, retries) ==
    IF attempt < retries
    THEN /\ pc' = here
         /\ attempt' = attempt + 1
         /\ UNCHANGED <<exc, raisedAt, result>>
    ELSE Raise(here, e)

\* mutant: the audit note leaves out the exception
UnexpectedMsg_NoCause(e) ==
    <<"An unexpected error occurred in the churn prediction pipeline: ">>

UnexpectedMsg(e) ==
    <<"An unexpected error occurred in the churn prediction pipeline: ">> \o e

----
\* The flow churn_prediction_pipeline.

Init ==
    /\ bucketExists \in BOOLEAN
    /\ key \in UploadKeys
    /\ upload \in {NoUpload} \cup
                  {[exists |-> TRUE, body |-> body] :
                      body \in IF bucketExists THEN UploadBodies ELSE {}}
    /\ s3 = IF upload.exists THEN PutObject(EmptyStore, key, upload.body) ELSE EmptyStore
    /\ aliasVersion \in Versions
    /\ folderArg = <<>>
    /\ messageArg = <<>>
    /\ exampleArg = <<>>
    /\ thresholdArg = score_threshold
    /\ pc = "head_bucket"
    /\ attempt = 0
    /\ latest_s3_key = key
    /\ exc = <<>>
    /\ raisedAt = "none"
    /\ result = "running"
    /\ model = "none"
    /\ validation = NoValidation
    /\ report = <<>>
    /\ drift = NoDrift
    /\ scores = NoScores
    /\ drift_metrics = <<>>
    /\ db = NoSessions
    /\ reference = "none"
    /\ workspace = NoProjects
    /\ runs = NoRuns
    /\ alerts = <<>>
    /\ faults = 0
    /\ called = {}
    /\ s3calls = {}
    /\ copies = {}
    /\ moveCount = 0
    /\ lastMove = NoMove

\* s3_client.head_bucket(Bucket=bucket).  For a bucket that does not exist the
\* boto3 client raises ClientError; a client returning a falsy value takes the
\* `return` of the flow.
HeadBucket ==
    /\ pc = "head_bucket"
    /\ s3calls' = s3calls \cup {Call("head_bucket", <<>>)}
    /\ \/ /\ bucketExists
          /\ Goto("head_object")
          /\ UNCHANGED faults
       \/ /\ bucketExists
          /\ CanFail
          /\ Raise("head_bucket", StorageError("head_bucket", "failed"))
          /\ faults' = faults + 1
       \/ /\ ~bucketExists
          /\ Raise("head_bucket", StorageError("head_bucket", "404"))
          /\ UNCHANGED faults
       \/ /\ ~bucketExists
          /\ Return
          /\ UNCHANGED faults
    /\ UNCHANGED <<env, assessed, s3, latest_s3_key, model, validation, report, drift_metrics, db, reference, workspace, runs,
                   alerts, called, copies, moveCount, lastMove>>

\* s3_client.head_object(Bucket=bucket, Key=key): a ClientError ends the flow,
\* any other exception reaches the handler.
HeadObject ==
    /\ pc = "head_object"
    /\ s3calls' = s3calls \cup {Call("head_object", key)}
    /\ \E fault \in Failing({"none", "client_error", "connection"}) :
          /\ faults' = faults + Injected(fault)
          /\ IF fault = "connection"
             THEN Raise("head_object", <<"EndpointConnectionError">>)
             ELSE IF fault = "client_error" \/ key \notin DOMAIN s3
             THEN Return
             ELSE Goto("fetch_model")
    /\ UNCHANGED <<env, assessed, s3, latest_s3_key, model, validation, report, drift_metrics, db, reference, workspace, runs,
                   alerts, called, copies, moveCount, lastMove>>

FetchModelError ==
    <<"Failed to fetch model '">> \o MODEL_NAME \o <<"' with alias '", "staging", "' ">>
        \o <<"- Does it exist in the MLFlow registry?': ">> \o <<"MlflowException">>

FetchModel ==
    /\ pc = "fetch_model"
    /\ called' = called \cup {"fetch_model"}
    /\ \E fault \in Failing({"none", "registry"}) :
          /\ faults' = faults + Injected(fault)
          /\ IF fault = "registry"
             THEN /\ RetryOrRaise("fetch_model", FetchModelError, Retries)
                  /\ UNCHANGED model
             ELSE /\ Goto("move_processing")
                  /\ model' = aliasVersion
    /\ UNCHANGED <<env, assessed, s3, latest_s3_key, validation, report, drift_metrics, db, reference, workspace, runs, alerts,
                   s3calls, copies, moveCount, lastMove>>

\* A call of the task move_to_folder from position `here`: one attempt per
\* step, run again by the retry policy when it raises.
MoveTask(here, k, folder, message, next, assign) ==
    /\ called' = called \cup {"move_to_folder"}
    /\ \E fault \in Failing(MoveFaults) :
          LET r == move_to_folder(s3, k, folder, message, fault) IN
          /\ fault = "none" \/ r.hit
          /\ faults' = faults + Injected(fault)
          /\ s3' = r.store
          /\ s3calls' = s3calls \cup r.calls
          /\ copies' = copies \cup r.copied
          /\ IF r.ok
             THEN /\ IF next = "done" THEN Return ELSE Goto(next)
                  /\ latest_s3_key' = IF assign THEN r.ret ELSE latest_s3_key
                  /\ moveCount' = moveCount + 1
                  /\ lastMove' =
                         [key |-> k, folder |-> folder, message |-> message,
                          ret |-> r.ret, body |-> s3[k],
                          logExisted |-> LogKey(Basename(k)) \in DOMAIN s3,
                          logBefore |-> IF LogKey(Basename(k)) \in DOMAIN s3
                                        THEN s3[LogKey(Basename(k))].text ELSE <<>>]
             ELSE /\ RetryOrRaise(here, r.exc, Retries)
                  /\ UNCHANGED <<latest_s3_key, moveCount, lastMove>>
    /\ UNCHANGED <<env, assessed, model, validation, report, drift_metrics, db, reference, workspace, runs, alerts>>

\* mutant: the initial move targets the terminal folder
MoveToProcessing_ToProcessed ==
    /\ pc = "move_processing"
    /\ MoveTask("move_processing", key, FOLDER_PROCESSED, <<>>, "validate", TRUE)

\* latest_s3_key = move_to_folder(bucket, key, FOLDER_PROCESSING)
MoveToProcessing ==
    /\ pc = "move_processing"
    /\ MoveTask("move_processing", key, FOLDER_PROCESSING, <<>>, "validate", TRUE)

ValidateFileInput ==
    /\ pc = "validate"
    /\ called' = called \cup {"validate_file_input"}
    /\ \E fault \in Failing({"none", "get"}) :
          LET r == validate_file_input(s3, latest_s3_key, NUMERICAL_COLUMNS, fault) IN
          /\ fault = "none" \/ Call("get", latest_s3_key) \in r.calls
          /\ faults' = faults + Injected(fault)
          /\ validation' = r
          /\ s3calls' = s3calls \cup r.calls
          /\ IF r.success THEN Goto("prepare") ELSE Goto("move_invalid")
    /\ UNCHANGED <<env, assessed, s3, latest_s3_key, model, report, drift_metrics, db, reference, workspace, runs, alerts,
                   copies, moveCount, lastMove>>

\* mutant: the validation message is not passed to the move
MoveInvalidToErrored_NoNote ==
    /\ pc = "move_invalid"
    /\ MoveTask("move_invalid", latest_s3_key, FOLDER_ERRORED, <<>>, "done", FALSE)

\* if not success: move_to_folder(bucket, latest_s3_key, FOLDER_ERRORED,
\* message=err_msg); return
MoveInvalidToErrored ==
    /\ pc = "move_invalid"
    /\ MoveTask("move_invalid", latest_s3_key, FOLDER_ERRORED, validation.err, "done", FALSE)

PrepareDataset ==
    /\ pc = "prepare"
    /\ called' = called \cup {"prepare_dataset"}
    /\ LET r == prepare_data(validation.data) IN
          IF r.ok THEN Goto("predict") ELSE Raise("prepare", r.exc)
    /\ UNCHANGED <<env, assessed, s3, latest_s3_key, model, validation, report, drift_metrics, db, reference, workspace, runs,
                   alerts, faults, s3calls, copies, moveCount, lastMove>>

GeneratePredictions ==
    /\ pc = "predict"
    /\ called' = called \cup {"generate_predictions"}
    /\ \E fault \in Failing({"none", "predict"}) :
          /\ faults' = faults + Injected(fault)
          /\ IF fault = "predict"
             THEN Raise("predict", <<"MlflowException">>)
             ELSE Goto("log_predictions")
    /\ UNCHANGED <<env, assessed, s3, latest_s3_key, model, validation, report, drift_metrics, db, reference, workspace, runs,
                   alerts, s3calls, copies, moveCount, lastMove>>

\* latest_s3_key, predictions_df = log_predictions(X, y, y_pred, bucket, latest_s3_key)
LogPredictions ==
    /\ pc = "log_predictions"
    /\ called' = called \cup {"log_predictions"}
    /\ \E fault \in Failing(LogPredictionsFaults) :
          LET r == log_predictions(s3, NUMERICAL_COLUMNS, latest_s3_key, aliasVersion, fault) IN
          /\ fault = "none" \/ r.hit
          /\ faults' = faults + Injected(fault)
          /\ s3' = r.store
          /\ s3calls' = s3calls \cup r.calls
          /\ IF r.ok
             THEN /\ Goto("report")
                  /\ latest_s3_key' = r.ret
             ELSE /\ RetryOrRaise("log_predictions", r.exc, Retries)
                  /\ UNCHANGED latest_s3_key
    /\ UNCHANGED <<env, assessed, model, validation, report, drift_metrics, db, reference, workspace, runs, alerts, copies,
                   moveCount, lastMove>>

ReferenceDataError ==
    <<"Failed to load artifact data from '", "reference_data", "/", "reference_data", ".csv", "'">>
        \o <<" - Does it exist in the MLFlow registry?': ">> \o <<"MlflowException">>

\* mutant: the report is assessed without being saved to the database
GenerateDataReport_SkipSave ==
    /\ pc = "report"
    /\ called' = called \cup {"generate_data_report"}
    /\ \E fault \in Failing({"none", "artifact"}) :
          /\ faults' = faults + Injected(fault)
          /\ IF fault = "artifact"
             THEN /\ RetryOrRaise("report", ReferenceDataError, Retries)
                  /\ UNCHANGED <<report, reference, workspace>>
             ELSE /\ Goto("assess_drift")
                  /\ report' \in Reports
                  /\ reference' = aliasVersion
                  /\ workspace' = publish_report(workspace, "none", TRUE).workspace
    /\ UNCHANGED <<env, assessed, s3, latest_s3_key, model, validation, drift_metrics, db, runs,
                   alerts, s3calls, copies, moveCount, lastMove>>

\* drift_report_run, run_add_results = generate_data_report(predictions_df)
GenerateDataReport ==
    /\ pc = "report"
    /\ called' = called \cup {"generate_data_report"}
    /\ \E fault \in Failing({"none", "artifact"}) :
          /\ faults' = faults + Injected(fault)
          /\ IF fault = "artifact"
             THEN /\ RetryOrRaise("report", ReferenceDataError, Retries)
                  /\ UNCHANGED <<report, reference, workspace>>
             ELSE /\ Goto("save_db")
                  /\ report' \in Reports
                  /\ reference' = aliasVersion
                  /\ workspace' = publish_report(workspace, "none", TRUE).workspace
    /\ UNCHANGED <<env, assessed, s3, latest_s3_key, model, validation, drift_metrics, db, runs, alerts,
                   s3calls, copies, moveCount, lastMove>>

SaveReportError(e) == <<"Failed to save Evidently report run to database: ">> \o e

\* `session` is not bound when load_database_secrets or connect_to_database
\* raised: session.rollback() in the except clause and session.close() in the
\* finally clause raise UnboundLocalError, which is what leaves the task
UnboundSession == <<"UnboundLocalError", ": ", "session">>

\* an attempt of save_report_to_database raised: Prefect runs the task again
\* while retries are left
SaveAttemptRaised(failed, e) ==
    IF failed < Retries
    THEN /\ pc' = "save_db"
         /\ attempt' = failed + 1
         /\ UNCHANGED <<exc, raisedAt, result>>
    ELSE Raise("save_db", e)

\* save_report_to_database, up to its call of connect_to_database:
\* secrets = load_database_secrets()
SaveReportToDatabase ==
    /\ pc = "save_db"
    /\ called' = called \cup {"save_report_to_database"}
    /\ \E fault \in Failing({"none", "secrets"}) :
          /\ faults' = faults + Injected(fault)
          /\ IF fault = "secrets"
             THEN /\ SaveAttemptRaised(attempt, UnboundSession)
                  /\ db' = UnboundSessionState
             ELSE /\ Goto("connect_db")
                  /\ db' = [db EXCEPT !.save_attempt = attempt]
    /\ UNCHANGED <<env, reference, workspace, runs, assessed, s3, latest_s3_key, model, validation, report,
                   drift_metrics, alerts, s3calls, copies, moveCount, lastMove>>

\* The session of one attempt once connect_to_database returned it:
\* parse_and_save_drift_metrics commits the rows, then
\* grant_grafana_access_to_drift_table executes and commits the grant; its
\* except clause rolls back, and so does that of save_report_to_database;
\* the finally clause closes the session.
SessionAfter(fault, r) ==
    [session |-> "closed", rolled_back |-> fault \in {"commit", "grant"},
     committed |-> r.ok, save_attempt |-> 0]

\* session = connect_to_database(secrets), a task with its own retries, and
\* the rest of the attempt of save_report_to_database
ConnectToDatabase ==
    /\ pc = "connect_db"
    /\ called' = called \cup {"connect_to_database"}
    /\ \E fault \in Failing({"none", "connect", "commit", "grant"}) :
          /\ faults' = faults + Injected(fault)
          /\ IF fault = "connect"
             THEN /\ IF attempt < Retries
                     THEN /\ pc' = "connect_db"
                          /\ attempt' = attempt + 1
                          /\ UNCHANGED <<exc, raisedAt, result>>
                          /\ UNCHANGED db
                     ELSE /\ SaveAttemptRaised(db.save_attempt, UnboundSession)
                          /\ db' = UnboundSessionState
                  /\ UNCHANGED drift_metrics
             ELSE LET r == parse_and_save_drift_metrics(drift_metrics, report, fault)
                  IN /\ drift_metrics' = r.rows
                     /\ db' = SessionAfter(fault, r)
                     /\ IF fault = "none"
                        THEN Goto("assess_drift")
                        ELSE SaveAttemptRaised(db.save_attempt,
                                               SaveReportError(<<"OperationalError">>))
    /\ UNCHANGED <<env, reference, workspace, runs, assessed, s3, latest_s3_key, model, validation, report, alerts,
                   s3calls, copies, moveCount, lastMove>>

\* mutant: the drift alert is sent whatever the assessment returned
AssessDataDrift_AlwaysAlert ==
    /\ pc = "assess_drift"
    /\ called' = called \cup {"assess_data_drift"}
    /\ drift' = assess_data_drift(report)
    /\ Goto("drift_alert")
    /\ UNCHANGED <<env, scores, s3, latest_s3_key, model, validation, report,
                   drift_metrics, db, reference, workspace, runs, alerts, faults, s3calls, copies, moveCount, lastMove>>

AssessDataDrift ==
    /\ pc = "assess_drift"
    /\ called' = called \cup {"assess_data_drift"}
    /\ drift' = assess_data_drift(report)
    /\ IF drift'.is_data_drifted
       THEN Goto("drift_alert")
       ELSE Goto("assess_scores")
    /\ UNCHANGED <<env, scores, s3, latest_s3_key, model, validation, report, drift_metrics, db, reference, workspace, runs,
                   alerts, faults, s3calls, copies, moveCount, lastMove>>

DriftSubject(num_drifted_cols) ==
    <<"Customer Data Drift Alert: ", ToString(num_drifted_cols), " Column(s) Drifted">>

ScoresSubject(num_scores_below_threshold) ==
    <<"Customer Prediction Scores Alert: ", ToString(num_scores_below_threshold),
      " ", "Scores Below Threshold">>

\* A call of an alert task: it publishes through send_sns_alert, which the
\* retry policy runs again when the publish raises.
AlertTask(here, subject, next) ==
    /\ \E fault \in Failing({"none", "publish"}) :
          /\ faults' = faults + Injected(fault)
          /\ IF fault = "publish"
             THEN /\ RetryOrRaise(here, <<"ClientError", ": ", "publish", " ", "failed">>, Retries)
                  /\ UNCHANGED alerts
             ELSE /\ Goto(next)
                  /\ alerts' = Append(alerts, subject)
    /\ UNCHANGED <<env, assessed, s3, latest_s3_key, model, validation, report, drift_metrics, db, reference, workspace, runs,
                   s3calls, copies, moveCount, lastMove>>

SendDriftAlert ==
    /\ pc = "drift_alert"
    /\ called' = called \cup {"send_drift_alert_email"}
    /\ AlertTask("drift_alert", DriftSubject(drift.num_cols_drifted),
                 "assess_scores")

AssessPredictionScores ==
    /\ pc = "assess_scores"
    /\ called' = called \cup {"assess_prediction_scores"}
    /\ scores' = assess_prediction_scores(report, score_threshold)
    /\ IF scores'.any_scores_below_threshold
       THEN Goto("scores_alert")
       ELSE Goto("move_processed")
    /\ UNCHANGED <<env, drift, s3, latest_s3_key, model, validation, report, drift_metrics, db, reference, workspace, runs,
                   alerts, faults, s3calls, copies, moveCount, lastMove>>

SendScoresAlert ==
    /\ pc = "scores_alert"
    /\ called' = called \cup {"send_scores_alert_email"}
    /\ AlertTask("scores_alert",
                 ScoresSubject(scores.num_scores_below_threshold),
                 "move_processed")

\* move_to_folder(bucket, latest_s3_key, FOLDER_PROCESSED)
MoveToProcessed ==
    /\ pc = "move_processed"
    /\ MoveTask("move_processed", latest_s3_key, FOLDER_PROCESSED, <<>>, "done", FALSE)

\* except Exception as e: move_to_folder(bucket, latest_s3_key, FOLDER_ERRORED,
\* message=err_msg); return
HandleException ==
    /\ pc = "handler"
    /\ MoveTask("handler", latest_s3_key, FOLDER_ERRORED, UnexpectedMsg(exc), "done", FALSE)

\* the training process promotes a new model version while the run is in progress
RepointAlias ==
    /\ pc \notin {"done", "call_move"}
    /\ aliasVersion = "1"
    /\ aliasVersion' = "2"
    /\ UNCHANGED <<bucketExists, key, upload, folderArg, messageArg, exampleArg,
                   thresholdArg, s3, ctl, latest_s3_key, model, validation, report,
                   assessed, drift_metrics, db, reference, workspace, runs, alerts, faults, called, s3calls, copies,
                   moveCount, lastMove>>

Next ==
    \/ HeadBucket
    \/ HeadObject
    \/ FetchModel
    \/ MoveToProcessing
    \/ ValidateFileInput
    \/ MoveInvalidToErrored
    \/ PrepareDataset
    \/ GeneratePredictions
    \/ LogPredictions
    \/ GenerateDataReport
    \/ SaveReportToDatabase
    \/ ConnectToDatabase
    \/ AssessDataDrift
    \/ SendDriftAlert
    \/ AssessPredictionScores
    \/ SendScoresAlert
    \/ MoveToProcessed
    \/ HandleException
    \/ RepointAlias

Spec == Init /\ [][Next]_vars

----
\* A direct call of the task move_to_folder(bucket, key, folder, message).

MoveKeys ==
    {<<"test-folder", "/", "test-file", ".csv">>,
     InputKey(<<"customers", ".csv">>),
     InputKey(<<"2024", "/", "customers", ".csv">>),
     Join(FOLDER_PROCESSING, <<"customers", ".csv">>),
     <<"customers", ".csv">>,
     InputKey(<<>>)}

MoveFolders == {FOLDER_PROCESSING, FOLDER_PROCESSED, FOLDER_ERRORED, <<"new-folder">>}

MoveMessages == {<<>>, InvalidFileTypeMsg(<<"bad", ".txt">>)}

EarlierLog == LogBody(LogLine(<<"old">>, <<"older">>, <<>>))

InitMove ==
    /\ bucketExists = TRUE
    /\ key \in MoveKeys
    /\ folderArg \in MoveFolders
    /\ messageArg \in MoveMessages
    /\ exampleArg = <<>>
    /\ thresholdArg = score_threshold
    /\ upload \in {NoUpload} \cup
                  {[exists |-> TRUE, body |-> body] : body \in UploadBodies}
    /\ \E withLog \in BOOLEAN, withTarget \in BOOLEAN :
          LET st0 == IF upload.exists THEN PutObject(EmptyStore, key, upload.body)
                     ELSE EmptyStore
              st1 == IF withLog THEN PutObject(st0, LogKey(Basename(key)), EarlierLog)
                     ELSE st0
          IN s3 = IF withTarget /\ Join(folderArg, Basename(key)) # key
                  THEN PutObject(st1, Join(folderArg, Basename(key)), CsvBody(<<>>, FALSE))
                  ELSE st1
    /\ aliasVersion = "1"
    /\ pc = "call_move"
    /\ attempt = 0
    /\ latest_s3_key = key
    /\ exc = <<>>
    /\ raisedAt = "none"
    /\ result = "running"
    /\ model = "none"
    /\ validation = NoValidation
    /\ report = <<>>
    /\ drift = NoDrift
    /\ scores = NoScores
    /\ drift_metrics = <<>>
    /\ db = NoSessions
    /\ reference = "none"
    /\ workspace = NoProjects
    /\ runs = NoRuns
    /\ alerts = <<>>
    /\ faults = 0
    /\ called = {}
    /\ s3calls = {}
    /\ copies = {}
    /\ moveCount = 0
    /\ lastMove = NoMove

CallMoveToFolder ==
    /\ pc = "call_move"
    /\ MoveTask("call_move", key, folderArg, messageArg, "done", FALSE)

NextMove == CallMoveToFolder

MoveSpec == InitMove /\ [][NextMove]_vars

----
\* Direct calls of validate_file_input, as the tests of the task make them.

ValidateKeys ==
    {<<"key_with_required_file_extension", ".csv">>,
     Join(FOLDER_PROCESSING, <<"customers", ".csv">>),
     Join(FOLDER_PROCESSING, <<"customers", ".csv", ".bak">>),
     Join(FOLDER_PROCESSING, <<"bad", ".txt">>),
     Join(FOLDER_PROCESSING, <<"CUSTOMERS", ".CSV">>),
     Join(FOLDER_PROCESSING, <<"customers">>),
     <<>>}

ValidateBodies ==
    UploadBodies \cup
        {CsvBody(<< <<"Call", " ", " ", "Failure">>, <<"complains">>, <<"Status", " ">> >>,
                 TRUE)}

ValidateExamples ==
    {NUMERICAL_COLUMNS,
     << <<"call", "_", "failure">>, <<"complains">> >>,
     << <<"complains">>, TARGET_COLUMN >>,
     << <<"expected", "_", "feature", "_", "1">>, <<"status">> >>}

InitValidate ==
    /\ bucketExists \in BOOLEAN
    /\ key \in ValidateKeys
    /\ exampleArg \in ValidateExamples
    /\ upload \in {NoUpload} \cup
                  {[exists |-> TRUE, body |-> body] :
                      body \in IF bucketExists THEN ValidateBodies ELSE {}}
    /\ s3 = IF upload.exists THEN PutObject(EmptyStore, key, upload.body) ELSE EmptyStore
    /\ aliasVersion = "1"
    /\ folderArg = <<>>
    /\ messageArg = <<>>
    /\ thresholdArg = score_threshold
    /\ pc = "call_validate"
    /\ attempt = 0
    /\ latest_s3_key = key
    /\ exc = <<>>
    /\ raisedAt = "none"
    /\ result = "running"
    /\ model = "none"
    /\ validation = NoValidation
    /\ report = <<>>
    /\ drift = NoDrift
    /\ scores = NoScores
    /\ drift_metrics = <<>>
    /\ db = NoSessions
    /\ reference = "none"
    /\ workspace = NoProjects
    /\ runs = NoRuns
    /\ alerts = <<>>
    /\ faults = 0
    /\ called = {}
    /\ s3calls = {}
    /\ copies = {}
    /\ moveCount = 0
    /\ lastMove = NoMove

\* validate_file_input(bucket, key, input_example)
CallValidateFileInput ==
    /\ pc = "call_validate"
    /\ called' = called \cup {"validate_file_input"}
    /\ \E fault \in Failing({"none", "get"}) :
          LET r == validate_file_input(s3, key, exampleArg, fault) IN
          /\ fault = "none" \/ Call("get", key) \in r.calls
          /\ faults' = faults + Injected(fault)
          /\ validation' = r
          /\ s3calls' = s3calls \cup r.calls
    /\ Return
    /\ UNCHANGED <<env, assessed, s3, latest_s3_key, model, report, drift_metrics, db, reference, workspace, runs, alerts,
                   copies, moveCount, lastMove>>

NextValidate == CallValidateFileInput

ValidateSpec == InitValidate /\ [][NextValidate]_vars

----
\* The two ingestion paths on a table of one column: validate_file_input, then
\* prepare_data on the table it returned.

ColumnNames == UNION {[1..n -> {" ", "Call", "failure"}] : n \in 0..MaxNameLen}

InitNormalize ==
    /\ bucketExists = TRUE
    /\ key = Join(FOLDER_PROCESSING, <<"customers", ".csv">>)
    /\ exampleArg = <<>>
    /\ upload \in {[exists |-> TRUE, body |-> CsvBody(<<n>>, TRUE)] : n \in ColumnNames}
    /\ s3 = PutObject(EmptyStore, key, upload.body)
    /\ aliasVersion = "1"
    /\ folderArg = <<>>
    /\ messageArg = <<>>
    /\ thresholdArg = score_threshold
    /\ pc = "call_validate_path"
    /\ attempt = 0
    /\ latest_s3_key = key
    /\ exc = <<>>
    /\ raisedAt = "none"
    /\ result = "running"
    /\ model = "none"
    /\ validation = NoValidation
    /\ report = <<>>
    /\ drift = NoDrift
    /\ scores = NoScores
    /\ drift_metrics = <<>>
    /\ db = NoSessions
    /\ reference = "none"
    /\ workspace = NoProjects
    /\ runs = NoRuns
    /\ alerts = <<>>
    /\ faults = 0
    /\ called = {}
    /\ s3calls = {}
    /\ copies = {}
    /\ moveCount = 0
    /\ lastMove = NoMove

\* validate_file_input(bucket, key, input_example): the table it returns has
\* the columns clean_column_names gives
ValidatePath ==
    /\ pc = "call_validate_path"
    /\ called' = called \cup {"validate_file_input"}
    /\ LET r == validate_file_input(s3, key, exampleArg, "none") IN
          /\ validation' = r
          /\ s3calls' = s3calls \cup r.calls
    /\ Goto("call_prepare_path")
    /\ UNCHANGED <<env, assessed, s3, latest_s3_key, model, report, drift_metrics, db, reference, workspace, runs, alerts,
                   faults, copies, moveCount, lastMove>>

\* prepare_data(df) on the validated table: the columns it works with are those
\* clean_column_names gives once more
PreparePath ==
    /\ pc = "call_prepare_path"
    /\ called' = called \cup {"prepare_data"}
    /\ validation' = [validation EXCEPT !.data = prepare_data(validation.data).columns]
    /\ Return
    /\ UNCHANGED <<env, assessed, s3, latest_s3_key, model, report, drift_metrics, db, reference, workspace, runs, alerts,
                   faults, s3calls, copies, moveCount, lastMove>>

NextNormalize ==
    \/ ValidatePath
    \/ PreparePath

NormalizeSpec == InitNormalize /\ [][NextNormalize]_vars

----
\* Two runs of the flow on one bucket, interleaved at their storage requests.
\* runs.of[r] is run r: the key it was started for, its position, the move it
\* is in (stage, src), its latest_s3_key, the log text it read, the message of
\* the move.  runs.placed[k] is the run whose upload, copy or put wrote the
\* object now at k, and runs.touched are the objects that the last request
\* read, overwrote or deleted, each with the run that had placed it.

\* the object that a request of run r finds at k
Touch(r, op, k) ==
    IF k \in DOMAIN s3
    THEN {[run |-> r, op |-> op, key |-> k, by |-> runs.placed[k]]}
    ELSE {}

\* new_key of the move that run r is in
NewKeyOf(r) ==
    LET folder == CASE runs.of[r].stage = "to_processing" -> FOLDER_PROCESSING
                    [] runs.of[r].stage = "to_processed" -> FOLDER_PROCESSED
                    [] OTHER -> FOLDER_ERRORED
    IN Join(folder, Basename(runs.of[r].src))

\* output_key of log_predictions in run r
OutputKeyOf(r) ==
    Join(FOLDER_PROCESSING,
         OutputFilename(RemoveAll(Basename(runs.of[r].latest), ".csv"), aliasVersion))

InitConcurrent ==
    /\ bucketExists = TRUE
    /\ key = InputKey(<<"customers", ".csv">>)
    /\ exampleArg = <<>>
    /\ upload = [exists |-> TRUE, body |-> CsvBody(NUMERICAL_COLUMNS \o <<TARGET_COLUMN>>, TRUE)]
    /\ s3 = EmptyStore
    /\ aliasVersion = "1"
    /\ folderArg = <<>>
    /\ messageArg = <<>>
    /\ thresholdArg = score_threshold
    /\ pc = "concurrent"
    /\ attempt = 0
    /\ latest_s3_key = key
    /\ exc = <<>>
    /\ raisedAt = "none"
    /\ result = "running"
    /\ model = "none"
    /\ validation = NoValidation
    /\ report = <<>>
    /\ drift = NoDrift
    /\ scores = NoScores
    /\ drift_metrics = <<>>
    /\ db = NoSessions
    /\ reference = "none"
    /\ workspace = NoProjects
    /\ LET NewRun(k) ==
               [key |-> k, pc |-> "upload", stage |-> "none", latest |-> k, src |-> <<>>,
                existing |-> <<>>, err |-> <<>>, attempt |-> 0, result |-> "running"]
       IN \E filename \in {<<"customers", ".csv">>, <<"orders", ".csv">>,
                            <<"customers", ".csv", ".csv">>} :
             runs = [NoRuns EXCEPT !.of = <<NewRun(key), NewRun(InputKey(filename))>>]
    /\ alerts = <<>>
    /\ faults = 0
    /\ called = {}
    /\ s3calls = {}
    /\ copies = {}
    /\ moveCount = 0
    /\ lastMove = NoMove

\* the upload arrives in the bucket and the event starts the run
RunUpload(r) ==
    /\ runs.of[r].pc = "upload"
    /\ s3' = PutObject(s3, runs.of[r].key, upload.body)
    /\ runs' = [of |-> [runs.of EXCEPT ![r].pc = "head"],
                placed |-> PutObject(runs.placed, runs.of[r].key, r),
                touched |-> {}]
    /\ UNCHANGED <<ctl, env, assessed, latest_s3_key, model, validation, report, drift_metrics,
                   db, reference, workspace, alerts, faults, called, s3calls, copies,
                   moveCount, lastMove>>

\* s3_client.head_object(Bucket=bucket, Key=key), then the move to processing
RunHeadObject(r) ==
    /\ runs.of[r].pc = "head"
    /\ runs' = [runs EXCEPT
                  !.touched = Touch(r, "read", runs.of[r].key),
                  !.of[r] = IF runs.of[r].key \in DOMAIN s3
                            THEN [@ EXCEPT !.pc = "copy", !.stage = "to_processing",
                                           !.src = runs.of[r].key]
                            ELSE [@ EXCEPT !.pc = "done", !.result = "returned"]]
    /\ UNCHANGED s3
    /\ UNCHANGED <<ctl, env, assessed, latest_s3_key, model, validation, report, drift_metrics,
                   db, reference, workspace, alerts, faults, called, s3calls, copies,
                   moveCount, lastMove>>

\* move_to_folder: copy_object.  NoSuchKey fails the attempt; after the last
\* retry the exception reaches the flow's handler, or leaves the flow when the
\* move is the handler's own
RunCopyObject(r) ==
    /\ runs.of[r].pc = "copy"
    /\ LET run == runs.of[r]
           new_key == NewKeyOf(r)
       IN
       IF run.src \in DOMAIN s3 /\ run.src # new_key
       THEN /\ s3' = PutObject(s3, new_key, s3[run.src])
            /\ runs' = [of |-> [runs.of EXCEPT ![r].pc = "delete"],
                        placed |-> PutObject(runs.placed, new_key, r),
                        touched |-> Touch(r, "read", run.src)
                                        \cup Touch(r, "overwrite", new_key)]
       ELSE /\ UNCHANGED s3
            /\ runs' = [runs EXCEPT
                          !.touched = {},
                          !.of[r] =
                              IF run.attempt < Retries
                              THEN [@ EXCEPT !.attempt = @ + 1]
                              ELSE IF run.stage = "handler"
                              THEN [@ EXCEPT !.pc = "done", !.attempt = 0,
                                             !.result = "raised"]
                              ELSE [@ EXCEPT !.stage = "handler", !.attempt = 0,
                                             !.src = run.latest,
                                             !.err = UnexpectedMsg(
                                                 StorageError("copy_object", "NoSuchKey"))]]
    /\ UNCHANGED <<ctl, env, assessed, latest_s3_key, model, validation, report, drift_metrics,
                   db, reference, workspace, alerts, faults, called, s3calls, copies,
                   moveCount, lastMove>>

\* move_to_folder: delete_object
RunDeleteObject(r) ==
    /\ runs.of[r].pc = "delete"
    /\ s3' = DeleteObject(s3, runs.of[r].src)
    /\ runs' = [of |-> [runs.of EXCEPT ![r].pc = "get"],
                placed |-> DeleteObject(runs.placed, runs.of[r].src),
                touched |-> Touch(r, "delete", runs.of[r].src)]
    /\ UNCHANGED <<ctl, env, assessed, latest_s3_key, model, validation, report, drift_metrics,
                   db, reference, workspace, alerts, faults, called, s3calls, copies,
                   moveCount, lastMove>>

\* move_to_folder: get_object of the log, "" when there is none
RunGetLog(r) ==
    /\ runs.of[r].pc = "get"
    /\ LET log_key == LogKey(Basename(runs.of[r].src)) IN
          runs' = [runs EXCEPT
                     !.touched = Touch(r, "read", log_key),
                     !.of[r] = [@ EXCEPT !.pc = "put",
                                         !.existing = IF log_key \in DOMAIN s3
                                                      THEN s3[log_key].text ELSE <<>>]]
    /\ UNCHANGED s3
    /\ UNCHANGED <<ctl, env, assessed, latest_s3_key, model, validation, report, drift_metrics,
                   db, reference, workspace, alerts, faults, called, s3calls, copies,
                   moveCount, lastMove>>

\* move_to_folder: put_object of the log and return new_key; the flow assigns
\* the return of the move to processing only
RunPutLog(r) ==
    /\ runs.of[r].pc = "put"
    /\ LET run == runs.of[r]
           new_key == NewKeyOf(r)
           log_key == LogKey(Basename(run.src))
           log_msg == LogLine(run.src, new_key, run.err)
       IN
       /\ s3' = PutObject(s3, log_key, LogBody(AppendLog(run.existing, log_msg)))
       /\ runs' = [of |-> [runs.of EXCEPT ![r] =
                              IF run.stage = "to_processing"
                              THEN [@ EXCEPT !.pc = "validate", !.latest = new_key,
                                             !.attempt = 0, !.existing = <<>>]
                              ELSE [@ EXCEPT !.pc = "done", !.result = "returned",
                                             !.attempt = 0, !.existing = <<>>]],
                   placed |-> PutObject(runs.placed, log_key, r),
                   touched |-> Touch(r, "overwrite", log_key)]
    /\ UNCHANGED <<ctl, env, assessed, latest_s3_key, model, validation, report, drift_metrics,
                   db, reference, workspace, alerts, faults, called, s3calls, copies,
                   moveCount, lastMove>>

\* validate_file_input(bucket, latest_s3_key, input_example), and the move to
\* errored that follows a failure
RunValidate(r) ==
    /\ runs.of[r].pc = "validate"
    /\ LET v == validate_file_input(s3, runs.of[r].latest, exampleArg, "none") IN
          runs' = [runs EXCEPT
                     !.touched = Touch(r, "read", runs.of[r].latest),
                     !.of[r] = IF v.success
                               THEN [@ EXCEPT !.pc = "put_predictions"]
                               ELSE [@ EXCEPT !.pc = "copy", !.stage = "to_errored",
                                              !.src = runs.of[r].latest, !.err = v.err]]
    /\ UNCHANGED s3
    /\ UNCHANGED <<ctl, env, assessed, latest_s3_key, model, validation, report, drift_metrics,
                   db, reference, workspace, alerts, faults, called, s3calls, copies,
                   moveCount, lastMove>>

\* log_predictions: put_object of the predictions
RunPutPredictions(r) ==
    /\ runs.of[r].pc = "put_predictions"
    /\ s3' = PutObject(s3, OutputKeyOf(r),
                       CsvBody(NUMERICAL_COLUMNS \o <<TARGET_COLUMN, TARGET_PREDICTION_COLUMN>>,
                               TRUE))
    /\ runs' = [of |-> [runs.of EXCEPT ![r].pc = "delete_input"],
                placed |-> PutObject(runs.placed, OutputKeyOf(r), r),
                touched |-> Touch(r, "overwrite", OutputKeyOf(r))]
    /\ UNCHANGED <<ctl, env, assessed, latest_s3_key, model, validation, report, drift_metrics,
                   db, reference, workspace, alerts, faults, called, s3calls, copies,
                   moveCount, lastMove>>

\* log_predictions: delete_object of its input and return output_key, then
\* the move to processed
RunDeleteInput(r) ==
    /\ runs.of[r].pc = "delete_input"
    /\ s3' = DeleteObject(s3, runs.of[r].latest)
    /\ runs' = [of |-> [runs.of EXCEPT ![r] =
                           [@ EXCEPT !.pc = "copy", !.stage = "to_processed",
                                     !.latest = OutputKeyOf(r), !.src = OutputKeyOf(r)]],
                placed |-> DeleteObject(runs.placed, runs.of[r].latest),
                touched |-> Touch(r, "delete", runs.of[r].latest)]
    /\ UNCHANGED <<ctl, env, assessed, latest_s3_key, model, validation, report, drift_metrics,
                   db, reference, workspace, alerts, faults, called, s3calls, copies,
                   moveCount, lastMove>>

NextConcurrent ==
    \/ \E r \in DOMAIN runs.of : RunUpload(r)
    \/ \E r \in DOMAIN runs.of : RunHeadObject(r)
    \/ \E r \in DOMAIN runs.of : RunCopyObject(r)
    \/ \E r \in DOMAIN runs.of : RunDeleteObject(r)
    \/ \E r \in DOMAIN runs.of : RunGetLog(r)
    \/ \E r \in DOMAIN runs.of : RunPutLog(r)
    \/ \E r \in DOMAIN runs.of : RunValidate(r)
    \/ \E r \in DOMAIN runs.of : RunPutPredictions(r)
    \/ \E r \in DOMAIN runs.of : RunDeleteInput(r)

ConcurrentSpec == InitConcurrent /\ [][NextConcurrent]_vars

----
\* The earlier variant of the flow, src/code/flows/churn_prediction_pipeline.py.
\* Its tasks carry no retry policy, and the flow binds latest_s3_key only with
\* the return of the first move.

\* latest_s3_key before the first move returned: the name is not bound
Unbound == <<"<unbound>">>

InitFlows ==
    /\ bucketExists \in BOOLEAN
    /\ key \in UploadKeys
    /\ upload \in {NoUpload} \cup
                  {[exists |-> TRUE, body |-> body] :
                      body \in IF bucketExists THEN UploadBodies ELSE {}}
    /\ s3 = IF upload.exists THEN PutObject(EmptyStore, key, upload.body) ELSE EmptyStore
    /\ aliasVersion = "1"
    /\ folderArg = <<>>
    /\ messageArg = <<>>
    /\ exampleArg \in {<<>>, << <<"complains">>, TARGET_COLUMN >>}
    /\ thresholdArg = score_threshold
    /\ pc = "flows_start"
    /\ attempt = 0
    /\ latest_s3_key = Unbound
    /\ exc = <<>>
    /\ raisedAt = "none"
    /\ result = "running"
    /\ model = "none"
    /\ validation = NoValidation
    /\ report = <<>>
    /\ drift = NoDrift
    /\ scores = NoScores
    /\ drift_metrics = <<>>
    /\ db = NoSessions
    /\ reference = "none"
    /\ workspace = NoProjects
    /\ runs = NoRuns
    /\ alerts = <<>>
    /\ faults = 0
    /\ called = {}
    /\ s3calls = {}
    /\ copies = {}
    /\ moveCount = 0
    /\ lastMove = NoMove

\* head_bucket, head_object and fetch_model: the flow returns when the bucket
\* or the object is missing, and an exception of any of the three calls
\* reaches the handler
FlowsBeforeMove ==
    /\ pc = "flows_start"
    /\ s3calls' = s3calls \cup {Call("head_bucket", <<>>), Call("head_object", key)}
    /\ called' = called \cup {"fetch_model"}
    /\ \E fault \in Failing({"none", "head_bucket", "head_object", "registry"}) :
          /\ faults' = faults + Injected(fault)
          /\ IF fault = "none" /\ bucketExists /\ key \in DOMAIN s3
             THEN /\ pc' = "flows_move"
                  /\ model' = aliasVersion
                  /\ UNCHANGED <<exc, result>>
             ELSE IF fault = "none"
             THEN /\ pc' = "done"
                  /\ result' = "returned"
                  /\ UNCHANGED <<exc, model>>
             ELSE /\ pc' = "flows_handler"
                  /\ exc' = IF fault = "registry" THEN <<"MlflowException">>
                            ELSE <<"EndpointConnectionError">>
                  /\ UNCHANGED <<result, model>>
    /\ UNCHANGED <<s3, latest_s3_key, validation>>
    /\ UNCHANGED <<env, assessed, report, drift_metrics, db, reference, workspace, runs, alerts,
                   attempt, raisedAt, copies, moveCount, lastMove>>

\* latest_s3_key = move_to_folder(bucket, key, FOLDER_PROCESSING)
FlowsMoveToProcessing ==
    /\ pc = "flows_move"
    /\ called' = called \cup {"move_to_folder"}
    /\ \E fault \in Failing(MoveFaults) :
          LET r == move_to_folder(s3, key, FOLDER_PROCESSING, <<>>, fault) IN
          /\ fault = "none" \/ r.hit
          /\ faults' = faults + Injected(fault)
          /\ s3' = r.store
          /\ s3calls' = s3calls \cup r.calls
          /\ IF r.ok
             THEN /\ pc' = "flows_validate"
                  /\ latest_s3_key' = r.ret
                  /\ UNCHANGED <<exc, result>>
             ELSE /\ pc' = "flows_handler"
                  /\ exc' = r.exc
                  /\ UNCHANGED <<latest_s3_key, result>>
    /\ UNCHANGED <<model, validation>>
    /\ UNCHANGED <<env, assessed, report, drift_metrics, db, reference, workspace, runs, alerts,
                   attempt, raisedAt, copies, moveCount, lastMove>>

\* success, err_msg = validate_file_input(bucket, latest_s3_key, input_example).
\* The task returns (False, err_msg) for a rejected file, which the flow moves
\* to data/errored, and the bare value True for an accepted one, which the
\* assignment cannot unpack: TypeError reaches the handler.
FlowsValidateFileInput ==
    /\ pc = "flows_validate"
    /\ called' = called \cup {"validate_file_input"}
    /\ LET k == latest_s3_key
           columns == [i \in DOMAIN s3[k].header |-> Strip(s3[k].header[i])]
           err_msg ==
               IF ~EndsWith(k, ".csv") THEN InvalidFileTypeMsg(k)
               ELSE IF k \notin DOMAIN s3
               THEN ErrorReadingMsg(k, StorageError("get_object", "NoSuchKey"))
               ELSE IF ~s3[k].parseable THEN ErrorReadingMsg(k, <<"ParserError">>)
               ELSE IF \E i \in DOMAIN exampleArg : exampleArg[i] \notin Range(columns)
               THEN <<"Input file ">> \o k \o <<" does not match expected structure.", "\n">>
                        \o <<"Expected columns: ">> \o ListStr(exampleArg)
               ELSE <<>>
       IN
       IF err_msg = <<>>
       THEN /\ validation' = [NoValidation EXCEPT !.success = TRUE]
            /\ pc' = "flows_handler"
            /\ exc' = <<"TypeError", ": ", "cannot unpack non-iterable bool object">>
            /\ UNCHANGED <<s3, s3calls, faults, result>>
       ELSE /\ validation' = Invalid(err_msg, {})
            /\ \E fault \in Failing(MoveFaults) :
                  LET r == move_to_folder(s3, k, FOLDER_ERRORED, err_msg, fault) IN
                  /\ fault = "none" \/ r.hit
                  /\ faults' = faults + Injected(fault)
                  /\ s3' = r.store
                  /\ s3calls' = s3calls \cup r.calls
                  /\ IF r.ok
                     THEN /\ pc' = "done"
                          /\ result' = "returned"
                          /\ UNCHANGED exc
                     ELSE /\ pc' = "flows_handler"
                          /\ exc' = r.exc
                          /\ UNCHANGED result
    /\ UNCHANGED <<model, latest_s3_key>>
    /\ UNCHANGED <<env, assessed, report, drift_metrics, db, reference, workspace, runs, alerts,
                   attempt, raisedAt, copies, moveCount, lastMove>>

\* except Exception: `if latest_s3_key:` reads a name that is not bound when
\* the exception came before the first move returned, and UnboundLocalError
\* leaves the flow; otherwise the file is moved to data/errored
FlowsHandleException ==
    /\ pc = "flows_handler"
    /\ pc' = "done"
    /\ IF latest_s3_key = Unbound
       THEN /\ result' = "raised"
            /\ UNCHANGED <<s3, s3calls, faults, called>>
       ELSE /\ called' = called \cup {"move_to_folder"}
            /\ \E fault \in Failing(MoveFaults) :
                  LET r == move_to_folder(s3, latest_s3_key, FOLDER_ERRORED,
                                          UnexpectedMsg(exc), fault) IN
                  /\ fault = "none" \/ r.hit
                  /\ faults' = faults + Injected(fault)
                  /\ s3' = r.store
                  /\ s3calls' = s3calls \cup r.calls
                  /\ result' = IF r.ok THEN "returned" ELSE "raised"
    /\ UNCHANGED <<exc, model, latest_s3_key, validation>>
    /\ UNCHANGED <<env, assessed, report, drift_metrics, db, reference, workspace, runs, alerts,
                   attempt, raisedAt, copies, moveCount, lastMove>>

NextFlows ==
    \/ FlowsBeforeMove
    \/ FlowsMoveToProcessing
    \/ FlowsValidateFileInput
    \/ FlowsHandleException

FlowsSpec == InitFlows /\ [][NextFlows]_vars

----
\* Consecutive runs of the flow as far as the report workspace goes: the end of
\* generate_data_report, run after run on one workspace and one persisted id.

InitPublish ==
    /\ bucketExists = TRUE
    /\ key = Join(FOLDER_PROCESSING, <<"customers", ".csv">>)
    /\ exampleArg = <<>>
    /\ upload = [exists |-> TRUE, body |-> CsvBody(<<>>, TRUE)]
    /\ s3 = PutObject(EmptyStore, key, upload.body)
    /\ aliasVersion = "1"
    /\ folderArg = <<>>
    /\ messageArg = <<>>
    /\ thresholdArg = score_threshold
    /\ pc = "call_generate_data_report"
    /\ attempt = 0
    /\ latest_s3_key = key
    /\ exc = <<>>
    /\ raisedAt = "none"
    /\ result = "running"
    /\ model = "none"
    /\ validation = NoValidation
    /\ report = <<>>
    /\ drift = NoDrift
    /\ scores = NoScores
    /\ drift_metrics = <<>>
    /\ db = NoSessions
    /\ reference = "none"
    /\ workspace = NoProjects
    /\ runs = NoRuns
    /\ alerts = <<>>
    /\ faults = 0
    /\ called = {}
    /\ s3calls = {}
    /\ copies = {}
    /\ moveCount = 0
    /\ lastMove = NoMove

\* the part of generate_data_report that publishes the run; a run that is over
\* (the task returned, or left its last retry) is followed by the next run
CallGenerateDataReport ==
    /\ pc = "call_generate_data_report"
    /\ Len(workspace.runs) < MaxRuns
    /\ called' = called \cup {"generate_data_report"}
    /\ \E fault \in Failing({"none", "create", "save", "add_run"}), missingRaises \in BOOLEAN :
          LET r == publish_report(workspace, fault, missingRaises) IN
          /\ faults' = faults + Injected(fault)
          /\ workspace' = r.workspace
          /\ pc' = pc
          /\ attempt' = IF ~r.ok /\ attempt < Retries THEN attempt + 1 ELSE 0
          /\ exc' = r.exc
          /\ raisedAt' = IF r.ok THEN "none" ELSE "report"
          /\ UNCHANGED result
    /\ UNCHANGED <<env, assessed, s3, latest_s3_key, model, validation, report, drift_metrics, db,
                   reference, runs, alerts, s3calls, copies, moveCount, lastMove>>

\* between two attempts or two runs the workspace loses a project (its storage
\* is reset, or the project is deleted in the UI)
ProjectRemoved ==
    /\ pc = "call_generate_data_report"
    /\ Len(workspace.runs) < MaxRuns
    /\ \E id \in workspace.projects :
          workspace' = [workspace EXCEPT !.projects = @ \ {id}]
    /\ UNCHANGED <<ctl, env, assessed, s3, latest_s3_key, model, validation, report, drift_metrics,
                   db, reference, runs, alerts, faults, called, s3calls, copies, moveCount, lastMove>>

\* between two attempts or two runs the variable evidently-project-id is deleted
VariableDeleted ==
    /\ pc = "call_generate_data_report"
    /\ Len(workspace.runs) < MaxRuns
    /\ workspace.persisted # NoProjectId
    /\ workspace' = [workspace EXCEPT !.persisted = NoProjectId]
    /\ UNCHANGED <<ctl, env, assessed, s3, latest_s3_key, model, validation, report, drift_metrics,
                   db, reference, runs, alerts, faults, called, s3calls, copies, moveCount, lastMove>>

NextPublish ==
    \/ CallGenerateDataReport
    \/ ProjectRemoved
    \/ VariableDeleted

PublishSpec == InitPublish /\ [][NextPublish]_vars

----
\* Direct calls of assess_data_drift, assess_prediction_scores and
\* parse_and_save_drift_metrics on a report.

AssessMetrics ==
    {Scalar(ValueDriftId("age_group"), 4),
     Scalar(ValueDriftId("status"), 5),
     Scalar(ValueDriftId("Complains"), 3),
     Scalar(<<"F1Score", "(", ")">>, 65),
     Scalar(<<"F1Score", "(", "conf_matrix", "=", "True", ")">>, 80),
     Scalar(<<"Accuracy", "(", ")">>, 70),
     Scalar(<<"Precision", "(", ")">>, 69),
     DictPartly(<<"F1ByLabel", "(", ")">>,
                [x \in {"0", "1"} |-> IF x = "0" THEN 90 ELSE 0], {"1"}),
     Other(<<"RocAuc", "(", ")">>)}

DriftCountMetric(share, count) ==
    Dict(<<"DriftedColumnsCount", "(", "drift_share", "=", "0.5", ")">>,
         [x \in {"count", "share"} |-> IF x = "count" THEN count ELSE share])

DriftCountMetrics ==
    {DriftCountMetric(40, 1), DriftCountMetric(50, 1), DriftCountMetric(60, 2)}

\* drift_report["metrics"]: the metrics in the order of the report, with the
\* one DriftedColumnsCount metric of the drift preset first or last, or without it
AssessReports ==
    LET others == UNION {[1..n -> AssessMetrics] : n \in 0..MaxMetrics} IN
    others \cup {<<d>> \o s : d \in DriftCountMetrics, s \in others}
           \cup {s \o <<d>> : d \in DriftCountMetrics, s \in others}

AssessThresholds == {score_threshold, 66}

InitAssess ==
    /\ bucketExists = TRUE
    /\ key = InputKey(<<"customers", ".csv">>)
    /\ upload = NoUpload
    /\ s3 = EmptyStore
    /\ aliasVersion = "1"
    /\ folderArg = <<>>
    /\ messageArg = <<>>
    /\ exampleArg = <<>>
    /\ thresholdArg \in AssessThresholds
    /\ pc = "call_assess_drift"
    /\ attempt = 0
    /\ latest_s3_key = key
    /\ exc = <<>>
    /\ raisedAt = "none"
    /\ result = "running"
    /\ model = "none"
    /\ validation = NoValidation
    /\ report \in AssessReports
    /\ drift = NoDrift
    /\ scores = NoScores
    /\ drift_metrics = <<>>
    /\ db = NoSessions
    /\ reference = "none"
    /\ workspace = NoProjects
    /\ runs = NoRuns
    /\ alerts = <<>>
    /\ faults = 0
    /\ called = {}
    /\ s3calls = {}
    /\ copies = {}
    /\ moveCount = 0
    /\ lastMove = NoMove

\* assess_data_drift(drift_report)
CallAssessDataDrift ==
    /\ pc = "call_assess_drift"
    /\ called' = called \cup {"assess_data_drift"}
    /\ drift' = assess_data_drift(report)
    /\ Goto("call_assess_scores")
    /\ UNCHANGED <<env, scores, s3, latest_s3_key, model, validation, report,
                   drift_metrics, db, reference, workspace, runs, alerts, faults, s3calls, copies, moveCount, lastMove>>

\* assess_prediction_scores(drift_report, score_threshold)
CallAssessPredictionScores ==
    /\ pc = "call_assess_scores"
    /\ called' = called \cup {"assess_prediction_scores"}
    /\ scores' = assess_prediction_scores(report, thresholdArg)
    /\ Goto("call_parse_and_save")
    /\ UNCHANGED <<env, drift, s3, latest_s3_key, model, validation, report,
                   drift_metrics, db, reference, workspace, runs, alerts, faults, s3calls, copies, moveCount, lastMove>>

\* parse_and_save_drift_metrics(drift_report, session) on an open session
CallParseAndSaveDriftMetrics ==
    /\ pc = "call_parse_and_save"
    /\ called' = called \cup {"parse_and_save_drift_metrics"}
    /\ LET r == parse_and_save_drift_metrics(drift_metrics, report, "none") IN
          /\ drift_metrics' = r.rows
          /\ db' = [db EXCEPT !.committed = r.ok]
    /\ Return
    /\ UNCHANGED <<env, reference, workspace, runs, assessed, s3, latest_s3_key, model, validation, report, alerts,
                   faults, s3calls, copies, moveCount, lastMove>>

NextAssess ==
    \/ CallAssessDataDrift
    \/ CallAssessPredictionScores
    \/ CallParseAndSaveDriftMetrics

AssessSpec == InitAssess /\ [][NextAssess]_vars

----
\* Properties of the file lifecycle.

DataFolders == {"INPUT", "PROCESSING", "PROCESSED", "ERRORED"}

DataKeys(st) == {k \in DOMAIN st : FolderOf(k) \in DataFolders}

Finished == pc = "done"

\* the last line of a log text: what follows the last but one "\n"
LastLine(text) ==
    LET ends == {i \in DOMAIN text : text[i] = "\n"} IN
    IF Cardinality(ends) <= 1 THEN text
    ELSE LET last == CHOOSE i \in ends : \A j \in ends : j <= i
             prev == CHOOSE i \in ends \ {last} : \A j \in ends \ {last} : j <= i
         IN SubSeq(text, prev + 1, Len(text))

MutatingCalls == {c \in s3calls : c.op \in {"copy", "delete", "put"}}

\* C1: a run, with storage calls that raise and stages that are retried,
\* leaves the file in at most one terminal folder: never an object under
\* data/processed and an object under data/errored.
C1_AtMostOneTerminalFolder ==
    Finished => ~(KeysIn(s3, "PROCESSED") # {} /\ KeysIn(s3, "ERRORED") # {})

\* C2: when a run that found its object ends, with at most one storage call
\* failing, nothing of the file is left under data/input or data/processing
\* and the file is in data/processed or data/errored.
C2_NoFileStranded ==
    (Finished /\ "fetch_model" \in called /\ faults <= 1) =>
        /\ KeysIn(s3, "INPUT") = {}
        /\ KeysIn(s3, "PROCESSING") = {}
        /\ KeysIn(s3, "PROCESSED") \cup KeysIn(s3, "ERRORED") # {}

\* C9: after a call of move_to_folder returns, no object is at the old key,
\* the object with the original content is at {folder}/{basename(key)}, that
\* key is the returned value, and the log data/logs/{basename(key)}.log has a
\* new last line naming the old key, the new key and the message.
C9_MoveToFolderEffect ==
    (Finished /\ result = "returned") =>
        LET new_key == folderArg \o <<"/">> \o Basename(key)
            log_key == FOLDER_LOGS \o <<"/">> \o Basename(key) \o <<".log">>
        IN /\ key \notin DOMAIN s3
           /\ new_key \in DOMAIN s3
           /\ s3[new_key] = upload.body
           /\ lastMove.ret = new_key
           /\ log_key \in DOMAIN s3
           /\ IsPrefix(lastMove.logBefore, s3[log_key].text)
           /\ Len(s3[log_key].text) > Len(lastMove.logBefore)
           /\ LET line == LastLine(s3[log_key].text)
              IN /\ lastMove.logBefore \o line = s3[log_key].text
                 /\ Last(line) = "\n"
                 /\ Contains(line, key)
                 /\ Contains(line, new_key)
                 /\ Contains(line, messageArg)

C9_Witness ==
    /\ Finished
    /\ result = "returned"
    /\ messageArg # <<>>
    /\ lastMove.logExisted
    /\ attempt = 0
    /\ faults > 0

\* C10: a move_to_folder call that returns appends exactly one line to the
\* audit log of its file name (creating the log when it is missing), and no
\* step of the pipeline shortens, replaces with other content or deletes a
\* log object.
C10_LogAppendOnly ==
    [][/\ \A k \in KeysIn(s3, "LOGS") :
             k \in DOMAIN s3' /\ IsPrefix(s3[k].text, s3'[k].text)
       /\ moveCount' # moveCount =>
             LET log_key == FOLDER_LOGS \o <<"/">> \o Basename(lastMove'.key) \o <<".log">>
                 before == IF log_key \in DOMAIN s3 THEN s3[log_key].text ELSE <<>>
                 after == s3'[log_key].text
                 line == SubSeq(after, Len(before) + 1, Len(after))
             IN /\ log_key \in DOMAIN s3'
                /\ IsPrefix(before, after)
                /\ Count(line, "\n") = 1
                /\ Last(line) = "\n"
                /\ \A k \in KeysIn(s3', "LOGS") \ {log_key} :
                      k \in DOMAIN s3 /\ s3'[k] = s3[k]]_vars

C10_Witness ==
    /\ moveCount = 2
    /\ \E k \in KeysIn(s3, "LOGS") : Count(s3[k].text, "\n") = 2

\* the file name without its extension
Stem(filename) == SubSeq(filename, 1, Len(filename) - 1)

CoversSchemaAndTarget(header) ==
    \A c \in Range(NUMERICAL_COLUMNS) \cup {TARGET_COLUMN} :
        c \in Range(clean_column_names(header))

ValidUpload ==
    /\ bucketExists
    /\ upload.exists
    /\ upload.body.parseable
    /\ Last(key) = ".csv"
    /\ CoversSchemaAndTarget(upload.body.header)

\* C3: for an existing .csv object under data/input whose normalized columns
\* cover the model schema and the target column, and with no external call
\* failing, the run ends with exactly one object of the file, at
\* data/processed/{stem}_predictions_{MODEL_NAME}_v{N}.csv, nothing under
\* data/input or data/processing, and new rows in drift_metrics.
C3_HappyPathEndsInProcessed ==
    (Finished /\ ValidUpload /\ faults = 0) =>
        /\ result = "returned"
        /\ \E N \in Versions :
              DataKeys(s3) =
                  {FOLDER_PROCESSED \o <<"/">> \o Stem(Basename(key))
                      \o <<"_predictions_">> \o MODEL_NAME \o <<"_v", N, ".csv">>}
        /\ Len(drift_metrics) > 0

StagesAfterInitialMove ==
    {"validate", "move_invalid", "prepare", "predict", "log_predictions", "report",
     "save_db", "connect_db", "assess_drift", "drift_alert", "assess_scores", "scores_alert",
     "move_processed"}

StagesBeforeInitialMove == {"head_bucket", "head_object", "fetch_model"}

\* the object at the current key has been moved to data/errored with an audit
\* line that contains `note`
RoutedToErrored(note) ==
    LET errored_key == FOLDER_ERRORED \o <<"/">> \o Basename(latest_s3_key)
        log_key == FOLDER_LOGS \o <<"/">> \o Basename(latest_s3_key) \o <<".log">>
    IN /\ errored_key \in DOMAIN s3
       /\ latest_s3_key \notin DOMAIN s3
       /\ log_key \in DOMAIN s3
       /\ Contains(LastLine(s3[log_key].text), note)
       /\ Contains(LastLine(s3[log_key].text), latest_s3_key)
       /\ Contains(LastLine(s3[log_key].text), errored_key)

\* C4: an exception of a stage after the initial move is caught by the flow,
\* which moves the object at the current key to data/errored with an audit
\* line containing the exception message; when that move succeeds the flow
\* returns without raising.
C4_FailureRoutedToErrored ==
    (Finished /\ raisedAt \in StagesAfterInitialMove) =>
        /\ Call("copy", latest_s3_key) \in s3calls
        /\ exc # <<>>
        /\ result = "returned" => RoutedToErrored(exc)
        /\ result = "raised" => lastMove.folder # FOLDER_ERRORED

C4_Witness ==
    /\ Finished
    /\ raisedAt = "move_processed"
    /\ result = "returned"

LaterTasks ==
    {"prepare_dataset", "generate_predictions", "log_predictions",
     "generate_data_report", "save_report_to_database", "assess_data_drift",
     "assess_prediction_scores", "send_drift_alert_email", "send_scores_alert_email"}

NoLaterStage ==
    /\ called \cap LaterTasks = {}
    /\ \A c \in copies : FolderOf(c[2]) # "PROCESSED"
    /\ drift_metrics = <<>>
    /\ alerts = <<>>

Transition(c) == <<FolderOf(c[1]), FolderOf(c[2])>>

C7_ExistenceCheckedFirst ==
    /\ ("fetch_model" \in called \/ "move_to_folder" \in called) =>
          /\ Call("head_bucket", <<>>) \in s3calls
          /\ Call("head_object", key) \in s3calls
    /\ (~bucketExists \/ ~upload.exists) =>
          /\ "fetch_model" \notin called
          /\ MutatingCalls = {}

\* C8 as stated: for a key that does not end in .csv, fetch_model is not
\* called before validate_file_input rejects the key.
C8_NoFetchBeforeExtensionCheck ==
    (Last(key) # ".csv" /\ validation.hasErr) => "fetch_model" \notin called

\* C8 amended: for a key that does not end in .csv, fetch_model has been
\* called and has returned the model before validate_file_input runs;
\* validate_file_input rejects the key on the extension check, naming the key,
\* and the run never reads the object.
C8_FetchThenExtensionCheck ==
    Last(key) # ".csv" =>
        /\ \A c \in s3calls : c.op = "get" => FolderOf(c.key) = "LOGS"
        /\ ~validation.success
        /\ "validate_file_input" \in called =>
              /\ "fetch_model" \in called
              /\ model # "none"
              /\ validation.hasErr
              /\ ~validation.hasData
              /\ Contains(validation.err, latest_s3_key)
              /\ Contains(validation.err, <<". Expected a CSV file.">>)
              /\ Contains(validation.err, <<"Invalid file type for ">>)

C8_Witness ==
    /\ Last(key) = ".txt"
    /\ validation.hasErr
    /\ Finished
    /\ result = "returned"

----
\* Properties of the audit log, the validator and the assessment.

\* C11: every audit line of a run is in one log object, named after the
\* originally uploaded file name: no other log object exists, also after
\* log_predictions has renamed the file and the file was moved again.
C11_OneLogPerOriginalFilename ==
    /\ KeysIn(s3, "LOGS") \subseteq {LogKey(Basename(key))}
    /\ moveCount > 0 => LogKey(Basename(key)) \in DOMAIN s3

\* a direct call of validate_file_input has returned
ValidateReturned == pc = "done" /\ "validate_file_input" \in called

HasCsvSuffix(k) == k # <<>> /\ k[Len(k)] = ".csv"

\* the object at `key` is read and parsed without error
Readable ==
    /\ bucketExists
    /\ key \in DOMAIN s3
    /\ s3[key].parseable
    /\ faults = 0

\* (False, None, message)
Rejected == ~validation.success /\ ~validation.hasData /\ validation.hasErr

\* (True, table, None)
Accepted == validation.success /\ validation.hasData /\ ~validation.hasErr

\* a run of spaces becomes one space
RECURSIVE CollapseSpaces(_)
CollapseSpaces(n) ==
    IF Len(n) < 2 THEN n
    ELSE IF n[1] = " " /\ n[2] = " " THEN CollapseSpaces(Tail(n))
    ELSE <<n[1]>> \o CollapseSpaces(Tail(n))

\* the normalized name of a column as the claims state it: lower case, runs
\* of spaces collapsed, trimmed, each remaining space an underscore
NormalizedName(n) ==
    LET c == CollapseSpaces(Lower(n))
        a == IF c # <<>> /\ Head(c) = " " THEN Tail(c) ELSE c
        b == IF a # <<>> /\ a[Len(a)] = " " THEN SubSeq(a, 1, Len(a) - 1) ELSE a
    IN [i \in DOMAIN b |-> IF b[i] = " " THEN "_" ELSE b[i]]

NormalizedColumns(header) == [i \in DOMAIN header |-> NormalizedName(header[i])]

MissingExpectedColumn ==
    \E i \in DOMAIN exampleArg :
        exampleArg[i] \notin Range(NormalizedColumns(s3[key].header))

\* C12: for a key that does not end with the case-sensitive suffix .csv,
\* validate_file_input returns (False, None, message), and the message
\* contains the key and "Expected a CSV file".
C12_NonCsvKeyRejected ==
    (ValidateReturned /\ ~HasCsvSuffix(key)) =>
        /\ Rejected
        /\ Contains(validation.err, <<"Invalid file type for ">> \o key)
        /\ Contains(validation.err, <<". Expected a CSV file.">>)

C12_Witness ==
    /\ ValidateReturned
    /\ key = Join(FOLDER_PROCESSING, <<"CUSTOMERS", ".CSV">>)
    /\ upload.exists /\ upload.body.parseable
    /\ ~MissingExpectedColumn
    /\ Rejected

\* C13: for a readable CSV object with a .csv key whose normalized column
\* names include every expected column (extra columns allowed),
\* validate_file_input returns (True, table, None) and the table carries the
\* normalized names: the file column " Call Failure " satisfies the expected
\* column call_failure.
C13_ValidFileAccepted ==
    /\ (ValidateReturned /\ HasCsvSuffix(key) /\ Readable /\ ~MissingExpectedColumn) =>
          /\ Accepted
          /\ validation.data = NormalizedColumns(s3[key].header)
          /\ \A i \in DOMAIN exampleArg : exampleArg[i] \in Range(validation.data)
    /\ (ValidateReturned /\ HasCsvSuffix(key) /\ Readable
            /\ <<" ", "Call", " ", "Failure", " ">> \in Range(s3[key].header)
            /\ exampleArg = << <<"call", "_", "failure">>, <<"complains">> >>) =>
          /\ Accepted
          /\ <<"call", "_", "failure">> \in Range(validation.data)
          /\ <<" ", "Call", " ", "Failure", " ">> \notin Range(validation.data)

\* C14: for a readable CSV object with a .csv key that lacks an expected
\* column after normalization, validate_file_input returns
\* (False, None, message) and the message lists every expected column, the
\* ones the file has included.
C14_MissingColumnRejected ==
    (ValidateReturned /\ HasCsvSuffix(key) /\ Readable /\ MissingExpectedColumn) =>
        /\ Rejected
        /\ Contains(validation.err, <<"Expected columns: ", "[">>)
        /\ \A i \in DOMAIN exampleArg :
              Contains(validation.err, <<"'">> \o exampleArg[i] \o <<"'">>)

C14_Witness ==
    /\ ValidateReturned
    /\ HasCsvSuffix(key) /\ Readable
    /\ Rejected
    /\ \E i, j \in DOMAIN exampleArg :
          /\ exampleArg[i] \notin Range(NormalizedColumns(s3[key].header))
          /\ exampleArg[j] \in Range(NormalizedColumns(s3[key].header))

\* C15: the rules are applied in the order extension, read, schema, and the
\* first failure is the one reported; a read or parse failure is returned with
\* a message starting "Error reading CSV file" and is not raised; in every
\* result exactly one of the table and the message is present.
C15_RulesInOrder ==
    ValidateReturned =>
        /\ raisedAt = "none" /\ result = "returned"
        /\ validation.success <=> validation.hasData
        /\ validation.success <=> ~validation.hasErr
        /\ ~HasCsvSuffix(key) => Head(validation.err) = "Invalid file type for "
        /\ (HasCsvSuffix(key) /\ ~Readable) =>
              /\ Rejected
              /\ Head(validation.err) = "Error reading CSV file "
              /\ Contains(validation.err, key \o <<": ">>)
        /\ (HasCsvSuffix(key) /\ Readable /\ MissingExpectedColumn) =>
              Head(validation.err) = "Input file "

C15_Witness ==
    /\ ValidateReturned
    /\ HasCsvSuffix(key)
    /\ key \in DOMAIN s3 /\ ~s3[key].parseable
    /\ Head(validation.err) = "Error reading CSV file "

\* C16: validate_file_input leaves storage as it was: it issues no put, copy
\* or delete, at most one get_object, and no storage request at all for a key
\* that fails the extension check.
C16_ValidateLeavesStorageUnchanged ==
    ValidateReturned =>
        /\ s3 = IF upload.exists THEN PutObject(EmptyStore, key, upload.body)
                ELSE EmptyStore
        /\ copies = {}
        /\ s3calls \subseteq {Call("get", key)}
        /\ validation.calls = s3calls
        /\ ~HasCsvSuffix(key) => s3calls = {}

C16_Witness ==
    /\ ValidateReturned
    /\ ~HasCsvSuffix(key)
    /\ key \in DOMAIN s3
    /\ s3calls = {}

DriftAlerts == {i \in DOMAIN alerts : Head(alerts[i]) = "Customer Data Drift Alert: "}

ScoresAlerts ==
    {i \in DOMAIN alerts : Head(alerts[i]) = "Customer Prediction Scores Alert: "}

\* the task has been called and has returned to the flow
TaskReturned(task, stage) == task \in called /\ pc # stage /\ raisedAt # stage

\* every score of the report is at or above 0.70 and the drift share is at most 0.5
QuietReport ==
    /\ report # <<>>
    /\ \A i \in DOMAIN report :
          /\ Head(report[i].metric_id) = "DriftedColumnsCount" =>
                report[i].dict["share"] <= 50
          /\ (Head(report[i].metric_id) \in {"F1Score", "Precision", "Recall", "Accuracy"}
                /\ report[i].shape = "scalar") => report[i].value >= 70

MetricsOf(token) == {i \in DOMAIN report : Head(report[i].metric_id) = token}

\* C18: assess_data_drift returns is_data_drifted = True exactly when the
\* report has a DriftedColumnsCount metric whose share is above 0.5 (0.6 gives
\* True, 0.4 and 0.5 give False), and False with count 0 when the report has
\* no DriftedColumnsCount metric.
C18_DriftShareDecides ==
    "assess_data_drift" \in called =>
        /\ drift.is_data_drifted <=>
              \E i \in MetricsOf("DriftedColumnsCount") : report[i].dict["share"] > 50
        /\ MetricsOf("DriftedColumnsCount") = {} =>
              (~drift.is_data_drifted /\ drift.num_cols_drifted = 0)
        /\ \A i \in MetricsOf("DriftedColumnsCount") :
              /\ report[i].dict["share"] = 60 => drift.is_data_drifted
              /\ report[i].dict["share"] \in {40, 50} => ~drift.is_data_drifted

C18_Witness ==
    /\ "assess_data_drift" \in called
    /\ \E i \in MetricsOf("DriftedColumnsCount") : report[i].dict["share"] = 50
    /\ MetricsOf("ValueDrift") # {}
    /\ ~drift.is_data_drifted

\* the ValueDrift metrics of the report with a value below 0.05, in report order
DriftedValueMetrics ==
    SelectSeq(report, LAMBDA m : Head(m.metric_id) = "ValueDrift" /\ m.value < 5)

\* C19: assess_data_drift records the column of every ValueDrift metric whose
\* value is below 0.05, in report order: every such metric contributes, and
\* no column with a value of 0.05 or more is recorded.
C19_DriftedColumnsCollected ==
    "assess_data_drift" \in called =>
        /\ Len(drift.drifted_columns) = Len(DriftedValueMetrics)
        /\ \A i \in DOMAIN DriftedValueMetrics :
              drift.drifted_columns[i] = <<DriftedValueMetrics[i].metric_id[5]>>
        /\ \A i \in MetricsOf("ValueDrift") :
              report[i].value >= 5 =>
                  <<report[i].metric_id[5]>> \notin Range(drift.drifted_columns)

C19_Witness ==
    /\ "assess_data_drift" \in called
    /\ drift.drifted_columns = << <<"Complains">>, <<"age_group">> >>
    /\ \E i \in MetricsOf("ValueDrift") : report[i].value = 5

ScoreNames == {"F1Score", "Precision", "Recall", "Accuracy"}

\* positions of the report metrics whose id starts with "{name}(" and whose
\* value is v, below the threshold
ScoreMatches(name, v) ==
    {i \in DOMAIN report :
        /\ Len(report[i].metric_id) >= 2
        /\ report[i].metric_id[1] = name /\ report[i].metric_id[2] = "("
        /\ report[i].value = v /\ v < thresholdArg}

ScoreEntries(name, v) ==
    {j \in DOMAIN scores.scores_below_threshold :
        scores.scores_below_threshold[j] = [score |-> name, value |-> v]}

----
\* Rows of the drift_metrics table.

ScalarMetrics == {i \in DOMAIN report : report[i].shape = "scalar"}

\* <<i, k>>: metric i is a dict and its sub-value under k is a number
NumericEntries ==
    {e \in (DOMAIN report) \X {"0", "1", "count", "share"} :
        /\ report[e[1]].shape = "dict"
        /\ e[2] \in DOMAIN report[e[1]].dict
        /\ e[2] \notin report[e[1]].nonnum}

ScalarRow(i) ==
    [metric_name |-> simplify_metric_name(report[i].metric_id), value |-> report[i].value]

EntryRow(e) ==
    [metric_name |-> simplify_metric_name(report[e[1]].metric_id) \o <<"[", e[2], "]">>,
     value |-> report[e[1]].dict[e[2]]]

----
\* The session of save_report_to_database.

SaveAttemptFailed == (pc = "save_db" /\ attempt > 0) \/ raisedAt = "save_db"

\* C22: whatever step of save_report_to_database raises (loading the secrets,
\* connecting, committing the rows, the grant), the attempt rolls the session
\* back and closes it, the exception that leaves the task is the RuntimeError
\* "Failed to save Evidently report run to database: ...", and the session of
\* every attempt, failed or not, is closed.
C22_FailedSaveRollsBackAndCloses ==
    /\ db.session # "none" => db.session = "closed"
    /\ SaveAttemptFailed => db.rolled_back
    /\ raisedAt = "save_db" =>
          IsPrefix(<<"Failed to save Evidently report run to database: ">>, exc)

----
\* The predictions object.

\* the key log_predictions is called with: the file after the initial move
ProcessingKey == Join(FOLDER_PROCESSING, Basename(key))

\* data/processing/{stem}_predictions_{MODEL_NAME}_v{version}.csv
PredictionsKeys ==
    {Join(FOLDER_PROCESSING, OutputFilename(Stem(Basename(key)), v)) : v \in Versions}

\* C23: log_predictions writes the predictions to
\* data/processing/{stem}_predictions_{MODEL_NAME}_v{version}.csv, the stem being
\* the base name of its input key without the .csv extension, before it
\* deletes the input key; when it has returned the flow's key is that new key,
\* the object exists under it and the input key is gone.
C23_PredictionsReplaceInput ==
    /\ pc = "log_predictions" /\ ProcessingKey \notin DOMAIN s3 =>
          \E k \in PredictionsKeys : k \in DOMAIN s3
    /\ pc = "report" /\ attempt = 0 =>
          /\ latest_s3_key \in PredictionsKeys
          /\ latest_s3_key \in DOMAIN s3
          /\ ProcessingKey \notin DOMAIN s3

----
\* Simplified metric names.

\* functionName(args): the arguments between the parentheses
ArgsOf(metric_id) == SubSeq(metric_id, 3, Len(metric_id) - 1)

\* the lowercased function name, then "_" and the lowercased X when the
\* arguments are column=X
ExpectedName(metric_id) ==
    LET args == ArgsOf(metric_id) IN
    IF Len(args) = 3 /\ args[1] = "column" /\ args[2] = "="
    THEN <<LowerTok(metric_id[1]), "_", LowerTok(args[3])>>
    ELSE <<LowerTok(metric_id[1])>>

----
\* Normalization of column names.

\* C25: normalization is idempotent, and the two ingestion paths normalize
\* with the same function: the columns prepare_data works with, normalized
\* once more, are the columns validate_file_input returned for the table.
C25_NormalizationIdempotent ==
    [][pc = "call_prepare_path" => validation'.data = validation.data]_vars

C25_Witness ==
    /\ pc = "done"
    /\ "prepare_data" \in called
    /\ upload.body.header = << <<" ", "Call", " ", " ", "failure", " ">> >>
    /\ validation.data = << <<"call", "_", "failure">> >>

\* C26: names that differ only in letter case, in leading or trailing spaces
\* or in the length of their internal runs of spaces normalize to the same
\* name: the lowercased words joined by one underscore per run of spaces.
C26_WhitespaceCollapsed ==
    pc = "call_prepare_path" =>
        validation.data = NormalizedColumns(upload.body.header)

----
\* The target column of a validated file.

\* C27: a table that passes validate_file_input against the model's input
\* example contains the target column, so prepare_data never raises for a
\* validated file.
C27_ValidatedTableHasTarget ==
    /\ validation.success => TARGET_COLUMN \in Range(validation.data)
    /\ raisedAt # "prepare"

----
\* The key the flow tracks.

\* a call of move_to_folder or log_predictions has failed an attempt and is
\* being retried
MoveOrRenameInProgress ==
    /\ pc \in {"move_processing", "move_invalid", "log_predictions", "move_processed",
               "handler"}
    /\ attempt > 0

\* C28: whenever no call of move_to_folder or log_predictions is in progress,
\* latest_s3_key names the key under which the object of the file exists:
\* before and after the initial move, after the rename by log_predictions and
\* after each terminal move.
C28_KeyNamesTheObject ==
    (bucketExists /\ upload.exists /\ ~MoveOrRenameInProgress) =>
        latest_s3_key \in DataKeys(s3)

----
\* Order of the stages.

\* the predictions object has been put under data/processing
PredictionsWritten ==
    \E c \in s3calls : c.op = "put" /\ FolderOf(c.key) = "PROCESSING"

RowsCommitted == drift_metrics # <<>>

CopiedToProcessed == \E c \in copies : FolderOf(c[2]) = "PROCESSED"

----
\* Retries.

\* the positions of the flow at which a task with a retry policy runs
RetryStages ==
    {"fetch_model", "move_processing", "move_invalid", "log_predictions", "report",
     "save_db", "connect_db", "drift_alert", "scores_alert", "move_processed", "handler"}

\* the order of the stages in the flow
StageOrder(p) ==
    CASE p = "head_bucket" -> 1
      [] p = "head_object" -> 2
      [] p = "fetch_model" -> 3
      [] p = "move_processing" -> 4
      [] p = "validate" -> 5
      [] p = "move_invalid" -> 6
      [] p = "prepare" -> 6
      [] p = "predict" -> 7
      [] p = "log_predictions" -> 8
      [] p = "report" -> 9
      [] p = "save_db" -> 10
      [] p = "connect_db" -> 11
      [] p = "assess_drift" -> 12
      [] p = "drift_alert" -> 13
      [] p = "assess_scores" -> 14
      [] p = "scores_alert" -> 15
      [] p = "move_processed" -> 16
      [] p = "handler" -> 17
      [] OTHER -> 18

\* C30: a failed attempt of a task with a retry policy is followed by another
\* attempt of that task only; no earlier stage runs again and what earlier
\* stages returned is kept; a task is attempted at most 1 + 3 times; its
\* failure reaches the flow (the handler, or the caller of the flow when the
\* handler's own move fails) only when the attempts are exhausted.
C30_RetriesAreLocalAndBounded ==
    [][/\ attempt <= Retries /\ attempt' <= Retries
       /\ db.save_attempt <= Retries /\ db'.save_attempt <= Retries
       /\ pc' # pc =>
             \/ StageOrder(pc') > StageOrder(pc)
             \/ pc = "connect_db" /\ pc' = "save_db" /\ attempt' = db.save_attempt + 1
       /\ (pc' = pc /\ attempt' # attempt) =>
             /\ pc \in RetryStages
             /\ attempt' = attempt + 1
       /\ ((pc' = pc /\ attempt' # attempt) \/ (pc = "connect_db" /\ pc' = "save_db")) =>
             /\ model' = model /\ validation' = validation /\ report' = report
             /\ latest_s3_key' = latest_s3_key
             /\ drift' = drift /\ scores' = scores /\ alerts' = alerts
       /\ (pc' = "handler" /\ pc \in RetryStages \ {"connect_db", "handler"}) =>
             attempt = Retries
       /\ (pc' = "handler" /\ pc = "connect_db") => db.save_attempt = Retries
       /\ (pc = "connect_db" /\ pc' \in {"save_db", "handler"} /\ db'.session = "unbound") =>
             attempt = Retries
       /\ (result' = "raised" /\ result # "raised") => attempt = Retries]_vars

C30_Witness ==
    /\ pc = "handler"
    /\ raisedAt = "save_db"
    /\ "connect_to_database" \in called
    /\ db.session = "closed" /\ db.rolled_back
    /\ faults = 4

----
\* Rows of one run.

\* C33: across the attempts of save_report_to_database in one run, each metric
\* of the report is committed to drift_metrics at most once: a retry after a
\* failed grant does not insert the rows of the run again.
C33_RowsCommittedOnce ==
    /\ \A i, j \in DOMAIN drift_metrics :
          drift_metrics[i] = drift_metrics[j] => i = j
    /\ Len(drift_metrics) <= Cardinality(ScalarMetrics) + Cardinality(NumericEntries)

----
\* The count and the names of the drifted columns.

\* C38: for every report, the drifted-column count assess_data_drift returns
\* is the number of names in the drifted-column list it returns.
C38_CountMatchesNames ==
    "assess_data_drift" \in called =>
        drift.num_cols_drifted = Len(drift.drifted_columns)

----
\* Retrying a move.

\* the arguments of the direct call name an existing object and another key
\* as its destination
MovableCall == upload.exists /\ Join(folderArg, Basename(key)) # key

\* C34: move_to_folder is safe to retry: when an attempt fails at the copy,
\* the delete, the read or the write of the audit log, an attempt with the
\* same arguments in which no storage call fails completes, returns the new
\* key and leaves the object only at the destination, with the audit line
\* written.  A call therefore raises only when every attempt met a failure.
C34_MoveSafeToRetry ==
    (MovableCall /\ pc = "done") =>
        /\ result = "raised" => faults = Retries + 1
        /\ result = "returned" =>
              /\ lastMove.ret = Join(folderArg, Basename(key))
              /\ key \notin DOMAIN s3
              /\ lastMove.ret \in DOMAIN s3 /\ s3[lastMove.ret] = upload.body
              /\ LogKey(Basename(key)) \in DOMAIN s3
              /\ LastLine(s3[LogKey(Basename(key))].text)
                    = LogLine(key, lastMove.ret, messageArg)

----
\* The last copy of a file.

\* the table log_predictions writes
IsPredictions(body) ==
    body.kind = "csv"
    /\ body.header = NUMERICAL_COLUMNS \o <<TARGET_COLUMN, TARGET_PREDICTION_COLUMN>>

\* the keys of the data folders that hold the upload or the predictions made
\* from it
CopiesOfTheFile ==
    {k \in DataKeys(s3) : s3[k] = upload.body \/ IsPredictions(s3[k])}

\* C35: in every state of a run triggered with an existing key, also between
\* the copy and the delete of a move, between the put and the delete of
\* log_predictions and after storage calls have failed, the uploaded data or
\* the predictions made from it exist under a key of data/input,
\* data/processing, data/processed or data/errored.
C35_LastCopyKept ==
    (bucketExists /\ upload.exists) => CopiesOfTheFile # {}

C35_Witness ==
    /\ pc = "log_predictions" /\ attempt = 1
    /\ Cardinality(CopiesOfTheFile) = 2
    /\ \E k \in CopiesOfTheFile : IsPredictions(s3[k])
    /\ \E k \in CopiesOfTheFile : s3[k] = upload.body

----
\* The model version of a run.

\* the version in a key ..._v{version}.csv
VersionIn(k) == k[Len(k) - 1]

\* C37: within one run, the model version in the name of the predictions
\* object and the version whose reference data the report compares with are
\* the version of the model fetched at the start of the run, also when the
\* alias is re-pointed to another version while the run is in progress.
C37_OneModelVersion ==
    /\ (pc = "report" /\ attempt = 0) => VersionIn(latest_s3_key) = model
    /\ reference # "none" => reference = model

----
\* C31: over consecutive runs generate_data_report creates a project only when
\* no project id is persisted or the persisted id is not resolved; a step that
\* adds a run leaves the persisted id equal to the id of the project that got
\* the run, and a run that finds the persisted project adds to that project
\* and creates none.
ProjectCreated == workspace'.projects \ workspace.projects # {}

RunAdded == Len(workspace'.runs) > Len(workspace.runs)

ReceivedRun == workspace'.runs[Len(workspace'.runs)]

PersistedResolves == workspace.persisted # NoProjectId /\ workspace.persisted \in workspace.projects

C31_ProjectReused ==
    [][/\ ProjectCreated => ~PersistedResolves
       /\ RunAdded => /\ workspace'.persisted = ReceivedRun
                      /\ ReceivedRun \in workspace'.projects
       /\ (RunAdded /\ PersistedResolves) => /\ ReceivedRun = workspace.persisted
                                             /\ ~ProjectCreated]_vars

\* three consecutive runs were added to one project, the only one created
C31_Witness ==
    /\ Len(workspace.runs) = 3
    /\ workspace.runs[1] = workspace.runs[2]
    /\ workspace.runs[2] = workspace.runs[3]
    /\ workspace.projects = {workspace.runs[1]}
    /\ workspace.persisted = workspace.runs[1]
    /\ workspace.next = 2

----
\* C32: two runs started for uploads with different filenames do not interfere:
\* every object that a storage request of a run reads, overwrites or deletes
\* was placed by that run or is its own upload, and a run that is over has
\* ended where it ends alone, with its valid file moved to data/processed.
DifferentFilenames ==
    /\ runs.of # <<>>
    /\ Basename(runs.of[1].key) # Basename(runs.of[2].key)

EndedAsAlone(r) ==
    runs.of[r].pc = "done" =>
        /\ runs.of[r].result = "returned"
        /\ runs.of[r].stage = "to_processed"

C32_RunsDoNotInterfere ==
    DifferentFilenames =>
        /\ \A t \in runs.touched : t.by = t.run
        /\ \A r \in DOMAIN runs.of : EndedAsAlone(r)

----
\* C36: an object under data/processing is read, overwritten or deleted only
\* by the run that placed it there, also when both runs were started for the
\* same filename.
C36_ProcessingObjectsPrivate ==
    \A t \in runs.touched : FolderOf(t.key) = "PROCESSING" => t.by = t.run

----
\* C39: in the earlier variant of the flow a file that validate_file_input
\* accepted is still at its data/processing key when the flow is over and
\* nothing was moved to data/errored, and a flow whose exception came before
\* the first move returned ends without the handler raising.
C39_EarlierVariantKeepsValidFile ==
    pc = "done" =>
        /\ validation.success =>
               /\ latest_s3_key \in DOMAIN s3
               /\ FolderOf(latest_s3_key) = "PROCESSING"
               /\ KeysIn(s3, "ERRORED") = {}
        /\ (latest_s3_key = Unbound /\ exc # <<>>) => result = "returned"


====
